---- MODULE Spec2Model ----
(***************************************************************************)
(* A model of the Python instrumenter of                                   *)
(* .ai-agents/logging/runtime/adapters/python.adapter.py:                  *)
(*   - the instrumentation policy (FunctionWrapper._should_instrument),    *)
(*   - the tree rewriter (FunctionWrapper, ReturnTransformer),             *)
(*   - the parser / emitter boundary (ast.parse, astor.to_source), on a    *)
(*     line-structured subset of Python,                                   *)
(*   - the file operations instrument_file / uninstrument_file with their  *)
(*     backups, step by step,                                              *)
(*   - the execution of original and rewritten function bodies against     *)
(*     the tracer runtime's hooks,                                         *)
(* and of the state detection of .ai-agents/openmemory_client.py and       *)
(* .ai-agents/detect-state.py (SpecMemory).                                *)
(*                                                                         *)
(* Python strings that the code inspects character by character (function *)
(* names, the environment's comma-separated lists) are sequences of        *)
(* one-character strings.                                                  *)
(***************************************************************************)
EXTENDS Integers, Sequences, FiniteSets, TLC

VARIABLES
    linesep,    \* os.linesep of the platform: "lf" or "crlf"
    fs,         \* the source files: file -> bytes on disk
    bk,         \* the backup tree: file -> bytes of backup_dir / relative path
    call,       \* file -> the instrument_file call in progress on it
    last,       \* file -> record of the last operation completed on it
    faults,     \* number of I/O faults injected so far
    ops,        \* number of operations called so far
    fn,         \* SpecWrap: the function definition under study
    wrapped,    \* SpecWrap: what FunctionWrapper.visit returned for fn
    runs,       \* SpecWrap: the invocations of fn and of wrapped
    phase,      \* SpecWrap: "init", "wrapped", "ran"
    store,      \* SpecMemory: the project state the OpenMemory server holds
    local,      \* SpecMemory: the machine detect-state.py runs on
    done        \* SpecMemory: record of the last client call completed

vars == <<linesep, fs, bk, call, last, faults, ops, fn, wrapped, runs, phase,
          store, local, done>>

fileVars == <<linesep, fs, bk, call, last, faults, ops>>
wrapVars == <<fn, wrapped, runs, phase>>
memVars == <<store, local, done>>

-----------------------------------------------------------------------------
(* Bounds of the model. *)

\* operations (instrument_file, uninstrument_file) called in one behaviour
MaxOps == 3
\* I/O faults (open or write raising) injected in one behaviour
MaxFaults == 1
\* return values 1..MaxVal in the bodies of SpecWrap
MaxVal == 2

-----------------------------------------------------------------------------
(* Python strings as sequences of characters. *)

Range(s) == {s[i] : i \in DOMAIN s}

\* str.startswith
StartsWith(s, p) ==
    /\ Len(p) <= Len(s)
    /\ \A i \in 1..Len(p) : s[i] = p[i]

RECURSIVE LStrip(_)
LStrip(s) == IF s # <<>> /\ Head(s) = " " THEN LStrip(Tail(s)) ELSE s

RECURSIVE RStrip(_)
RStrip(s) ==
    IF s # <<>> /\ s[Len(s)] = " " THEN RStrip(SubSeq(s, 1, Len(s) - 1)) ELSE s

\* str.strip(): whitespace removed at both ends
Strip(s) == RStrip(LStrip(s))

RECURSIVE SplitFrom(_, _)
SplitFrom(s, cur) ==
    IF s = <<>> THEN <<cur>>
    ELSE IF Head(s) = "," THEN <<cur>> \o SplitFrom(Tail(s), <<>>)
    ELSE SplitFrom(Tail(s), Append(cur, Head(s)))

\* str.split(','): "a,b" -> ["a", "b"], "a," -> ["a", ""], "" -> [""]
Split(s) == SplitFrom(s, <<>>)

\* [f.strip() for f in parts]
StripAll(parts) == [i \in DOMAIN parts |-> Strip(parts[i])]

-----------------------------------------------------------------------------
(* Names used by the code and by the programs of the model. *)

N_init == <<"_", "_", "i", "n", "i", "t", "_", "_">>
N_str == <<"_", "_", "s", "t", "r", "_", "_">>
N_repr == <<"_", "_", "r", "e", "p", "r", "_", "_">>
N_eq == <<"_", "_", "e", "q", "_", "_">>
N_f == <<"f">>
N_g == <<"g">>
N_h == <<"h">>
N_in == <<"i", "n">>
N_C == <<"C">>
N_a == <<"a">>
N_b == <<"b">>
N_ctx == <<"_", "_", "c", "t", "x">>
N_tracer == <<"_", "_", "t", "r", "a", "c", "e", "r">>
N_error == <<"e", "r", "r", "o", "r">>

\* line 53: the special methods always excluded
SpecialMethods == <<N_init, N_str, N_repr, N_eq>>

-----------------------------------------------------------------------------
(* InstrumentOptions and the process environment. *)

\* InstrumentOptions (the fields the code reads) plus the two environment
\* variables read by FunctionWrapper
MkOptions(level, functions, exclude_functions, env_excluded, env_prefixes) ==
    [level |-> level,
     functions |-> functions,
     exclude_functions |-> exclude_functions,
     env_excluded |-> env_excluded,
     env_prefixes |-> env_prefixes]

\* an exclude list without the special methods
GetExcludedFunctionsNoSpecial(o) ==
    o.exclude_functions
      \o (IF o.env_excluded # <<>>
          THEN StripAll(Split(o.env_excluded))
          ELSE <<>>)

\* FunctionWrapper._get_excluded_functions
GetExcludedFunctions(o) ==
    o.exclude_functions
      \o (IF o.env_excluded # <<>>
          THEN StripAll(Split(o.env_excluded))
          ELSE <<>>)
      \o SpecialMethods

\* a policy that consults the prefixes before options.functions
ShouldInstrumentPrefixFirst(o, func_name) ==
    IF func_name \in Range(GetExcludedFunctions(o)) THEN FALSE
    ELSE IF o.env_prefixes # <<>>
              /\ \E i \in DOMAIN Split(o.env_prefixes) :
                    StartsWith(func_name, Strip(Split(o.env_prefixes)[i]))
         THEN FALSE
    ELSE IF o.functions # <<>> THEN func_name \in Range(o.functions)
    ELSE TRUE

\* a policy that consults options.functions before the exclude list
ShouldInstrumentIncludeFirst(o, func_name) ==
    IF o.functions # <<>> THEN func_name \in Range(o.functions)
    ELSE IF func_name \in Range(GetExcludedFunctions(o)) THEN FALSE
    ELSE IF o.env_prefixes # <<>>
              /\ \E i \in DOMAIN Split(o.env_prefixes) :
                    StartsWith(func_name, Strip(Split(o.env_prefixes)[i]))
         THEN FALSE
    ELSE TRUE

\* FunctionWrapper._should_instrument
ShouldInstrument(o, func_name) ==
    IF func_name \in Range(GetExcludedFunctions(o)) THEN FALSE
    ELSE IF o.functions # <<>> THEN func_name \in Range(o.functions)
    ELSE IF o.env_prefixes # <<>>
              /\ \E i \in DOMAIN Split(o.env_prefixes) :
                    StartsWith(func_name, Strip(Split(o.env_prefixes)[i]))
         THEN FALSE
    ELSE TRUE

-----------------------------------------------------------------------------
(* The syntax tree: the subset of Python's ast the rewriter distinguishes.  *)
(* Every node is a record whose "type" is the name of its ast class; an     *)
(* expression is a record with a kind "k".                                  *)

ENone == [k |-> "None"]
EConst(v) == [k |-> "Const", v |-> v]
EStr(s) == [k |-> "Str", s |-> s]
EPath(p) == [k |-> "Path", p |-> p]
EName(id) == [k |-> "Name", id |-> id]
\* an exception object: cls is "Exception" (it or a subclass) or "BaseException"
\* (SystemExit, KeyboardInterrupt, ...: outside the Exception hierarchy)
EExc(cls, id) == [k |-> "Exc", cls |-> cls, id |-> id]
\* an expression whose evaluation raises exc (1 / 0)
EFail(exc) == [k |-> "Fail", exc |-> exc]
\* f(): a call of a function bound in the local scope
ECall(f) == [k |-> "Call", f |-> f]
\* __tracer.attr(args)
ETracer(attr, args) == [k |-> "Tracer", attr |-> attr, args |-> args]
EDict(keys, values) == [k |-> "Dict", keys |-> keys, values |-> values]

Pass == [type |-> "Pass"]
Return(value) == [type |-> "Return", value |-> value]
Raise(exc) == [type |-> "Raise", exc |-> exc]
Expr(value) == [type |-> "Expr", value |-> value]
Assign(target, value) == [type |-> "Assign", target |-> target, value |-> value]
ImportFrom(module, name) == [type |-> "ImportFrom", module |-> module, name |-> name]
If(test, body, orelse) == [type |-> "If", test |-> test, body |-> body, orelse |-> orelse]
ExceptHandler(etype, name, body) ==
    [type |-> "ExceptHandler", etype |-> etype, name |-> name, body |-> body]
Try(body, handlers, orelse, finalbody) ==
    [type |-> "Try", body |-> body, handlers |-> handlers, orelse |-> orelse,
     finalbody |-> finalbody]
\* ast.arguments: the lists of parameter names
Arguments(posonlyargs, args, vararg, kwonlyargs, kwarg) ==
    [posonlyargs |-> posonlyargs, args |-> args, vararg |-> vararg,
     kwonlyargs |-> kwonlyargs, kwarg |-> kwarg]
FunctionDef(name, args, body) ==
    [type |-> "FunctionDef", name |-> name, args |-> args, body |-> body]
AsyncFunctionDef(name, args, body) ==
    [type |-> "AsyncFunctionDef", name |-> name, args |-> args, body |-> body]
ClassDef(name, body) == [type |-> "ClassDef", name |-> name, body |-> body]

IsDef(s) == s.type \in {"FunctionDef", "AsyncFunctionDef"}

-----------------------------------------------------------------------------
(* ReturnTransformer: an ast.NodeTransformer with visit_Return only, so     *)
(* generic_visit carries it into every statement list of every other node.  *)

\* ReturnTransformer.visit_Return
VisitReturn(node) ==
    IF node.value # ENone
    THEN [node EXCEPT !.value = ETracer("end_function", <<EName(N_ctx), node.value>>)]
    ELSE node

RECURSIVE ReturnTransformerVisit(_)
\* ReturnTransformer.visit (ast.NodeTransformer.visit / generic_visit)
ReturnTransformerVisit(node) ==
    LET Each(body) == [i \in DOMAIN body |-> ReturnTransformerVisit(body[i])]
    IN  CASE node.type = "Return" -> VisitReturn(node)
          [] node.type \in {"FunctionDef", "AsyncFunctionDef", "ClassDef",
                            "ExceptHandler"} ->
                [node EXCEPT !.body = Each(node.body)]
          [] node.type = "If" ->
                [node EXCEPT !.body = Each(node.body), !.orelse = Each(node.orelse)]
          [] node.type = "Try" ->
                [node EXCEPT !.body = Each(node.body),
                             !.handlers = Each(node.handlers),
                             !.orelse = Each(node.orelse),
                             !.finalbody = Each(node.finalbody)]
          [] OTHER -> node

\* FunctionWrapper._transform_returns
TransformReturns(body) == [i \in DOMAIN body |-> ReturnTransformerVisit(body[i])]

-----------------------------------------------------------------------------
(* FunctionWrapper. *)

\* FunctionWrapper._create_params_dict
CreateParamsDict(args) ==
    EDict([i \in DOMAIN args.args |-> EStr(args.args[i])],
          [i \in DOMAIN args.args |-> EName(args.args[i])])

\* a level-1 wrapping that calls exit in a finally clause
WrapMinimalBalanced(node, file_path) ==
    LET enter_call == Expr(ETracer("enter", <<EStr(node.name), EPath(file_path)>>))
        exit_call == Expr(ETracer("exit", <<EStr(node.name)>>))
    IN  [node EXCEPT !.body = <<enter_call, Try(node.body, <<>>, <<>>, <<exit_call>>)>>]

\* FunctionWrapper._wrap_minimal
WrapMinimal(node, file_path) ==
    LET enter_call == Expr(ETracer("enter", <<EStr(node.name), EPath(file_path)>>))
        exit_call == Expr(ETracer("exit", <<EStr(node.name)>>))
    IN  [node EXCEPT !.body = <<enter_call>> \o node.body \o <<exit_call>>]

\* a handler that reports the error and does not raise it again
TracerExceptHandlerSwallows ==
    ExceptHandler("Exception", N_error,
                  <<Expr(ETracer("error_function", <<EName(N_ctx), EName(N_error)>>))>>)

\* the except handler built by _wrap_standard and _wrap_async
TracerExceptHandler ==
    ExceptHandler("Exception", N_error,
                  <<Expr(ETracer("error_function", <<EName(N_ctx), EName(N_error)>>)),
                    Raise(EName(N_error))>>)

\* FunctionWrapper._wrap_standard
WrapStandard(node, file_path) ==
    LET params_dict == CreateParamsDict(node.args)
        start_call == Assign(N_ctx,
                             ETracer("start_function",
                                     <<EStr(node.name), EPath(file_path), params_dict>>))
        try_body == TransformReturns(node.body)
        try_except == Try(try_body, <<TracerExceptHandler>>, <<>>, <<>>)
    IN  [node EXCEPT !.body = <<start_call, try_except>>]

\* FunctionWrapper._wrap_detailed
WrapDetailed(node, file_path) == WrapStandard(node, file_path)

\* FunctionWrapper._wrap_async
WrapAsync(node, file_path) ==
    LET params_dict == CreateParamsDict(node.args)
        start_call == Assign(N_ctx,
                             ETracer("start_function",
                                     <<EStr(node.name), EPath(file_path), params_dict>>))
        try_body == TransformReturns(node.body)
        try_except == Try(try_body, <<TracerExceptHandler>>, <<>>, <<>>)
    IN  [node EXCEPT !.body = <<start_call, try_except>>]

\* FunctionWrapper.visit_FunctionDef: the node returned
VisitFunctionDef(o, file_path, node) ==
    IF ~ShouldInstrument(o, node.name) THEN node
    ELSE IF o.level = 0 THEN node
    ELSE IF o.level = 1 THEN WrapMinimal(node, file_path)
    ELSE IF o.level = 2 THEN WrapStandard(node, file_path)
    ELSE WrapDetailed(node, file_path)

\* a visit that dispatches coroutines on the level as it does functions
VisitAsyncLikeSync(o, file_path, node) ==
    IF ~ShouldInstrument(o, node.name) THEN node
    ELSE IF o.level = 0 THEN node
    ELSE IF o.level = 1 THEN WrapMinimal(node, file_path)
    ELSE WrapAsync(node, file_path)

\* a visit that wraps coroutines at every level, 0 included
VisitAsyncAtEveryLevel(o, file_path, node) ==
    IF ~ShouldInstrument(o, node.name) THEN node
    ELSE WrapAsync(node, file_path)

\* FunctionWrapper.visit_AsyncFunctionDef: the node returned
VisitAsyncFunctionDef(o, file_path, node) ==
    IF ~ShouldInstrument(o, node.name) THEN node
    ELSE IF o.level = 0 THEN node
    ELSE WrapAsync(node, file_path)

RECURSIVE FunctionWrapperVisit(_, _, _)
\* FunctionWrapper.visit: visit_FunctionDef and visit_AsyncFunctionDef do not call
\* generic_visit, every other node is visited generically
FunctionWrapperVisit(o, file_path, node) ==
    LET Each(body) == [i \in DOMAIN body |-> FunctionWrapperVisit(o, file_path, body[i])]
    IN  CASE node.type = "FunctionDef" -> VisitFunctionDef(o, file_path, node)
          [] node.type = "AsyncFunctionDef" -> VisitAsyncFunctionDef(o, file_path, node)
          [] node.type \in {"ClassDef", "ExceptHandler"} ->
                [node EXCEPT !.body = Each(node.body)]
          [] node.type = "If" ->
                [node EXCEPT !.body = Each(node.body), !.orelse = Each(node.orelse)]
          [] node.type = "Try" ->
                [node EXCEPT !.body = Each(node.body),
                             !.handlers = Each(node.handlers),
                             !.orelse = Each(node.orelse),
                             !.finalbody = Each(node.finalbody)]
          [] OTHER -> node

RECURSIVE SumSeq(_)
SumSeq(s) == IF s = <<>> THEN 0 ELSE Head(s) + SumSeq(Tail(s))

RECURSIVE FunctionsWrapped(_, _)
\* FunctionWrapper.functions_wrapped after visit(node): one increment per
\* visit_FunctionDef / visit_AsyncFunctionDef call that passes the policy
FunctionsWrapped(o, node) ==
    LET Each(body) == SumSeq([i \in DOMAIN body |-> FunctionsWrapped(o, body[i])])
    IN  CASE IsDef(node) -> IF ShouldInstrument(o, node.name) THEN 1 ELSE 0
          [] node.type \in {"ClassDef", "ExceptHandler"} -> Each(node.body)
          [] node.type = "If" -> Each(node.body) + Each(node.orelse)
          [] node.type = "Try" ->
                Each(node.body) + Each(node.handlers) + Each(node.orelse)
                  + Each(node.finalbody)
          [] OTHER -> 0

\* transformer.visit(tree) on a Module: its body, statement by statement
VisitModule(o, file_path, tree) ==
    [i \in DOMAIN tree |-> FunctionWrapperVisit(o, file_path, tree[i])]

\* transformer.functions_wrapped after transformer.visit(tree)
ModuleFunctionsWrapped(o, tree) ==
    SumSeq([i \in DOMAIN tree |-> FunctionsWrapped(o, tree[i])])

-----------------------------------------------------------------------------
(* Source text.  A text (a Python str holding source code) is a sequence of *)
(* lines; a line is an indentation depth and a head: the opening line of a  *)
(* compound statement, a simple statement, a comment, a blank line, or text *)
(* that is no Python ("garbage").                                           *)

Line(ind, h) == [ind |-> ind, h |-> h]

HDef(async, name, args) == [h |-> "def", async |-> async, name |-> name, args |-> args]
HClass(name) == [h |-> "class", name |-> name]
HIf(test) == [h |-> "if", test |-> test]
HElse == [h |-> "else"]
HTry == [h |-> "try"]
HExcept(etype, name) == [h |-> "except", etype |-> etype, name |-> name]
HFinally == [h |-> "finally"]
HStmt(s) == [h |-> "stmt", s |-> s]
\* a comment line; marker: the comment's text holds '__tracer'
HComment(marker) == [h |-> "comment", marker |-> marker]
HBlank == [h |-> "blank"]
HGarbage == [h |-> "garbage"]

\* the module path in 'from .ai_agents.logging.runtime.tracer import __tracer'
TracerModule == ".ai_agents.logging.runtime.tracer"

\* line 413: import_statement, its two lines
ImportStatement == <<Line(0, HStmt(ImportFrom(TracerModule, N_tracer))), Line(0, HBlank)>>

RECURSIVE ExprHasMarker(_)
\* '__tracer' occurs in the text of the expression
ExprHasMarker(e) ==
    CASE e.k = "Tracer" -> TRUE
      [] e.k = "Name" -> StartsWith(e.id, N_tracer)
      [] e.k = "Dict" -> \E i \in DOMAIN e.values : ExprHasMarker(e.values[i])
      [] OTHER -> FALSE

\* '__tracer' in line
LineHasMarker(ln) ==
    CASE ln.h.h = "comment" -> ln.h.marker
      [] ln.h.h = "stmt" ->
            CASE ln.h.s.type \in {"Return", "Expr", "Assign"} -> ExprHasMarker(ln.h.s.value)
              [] ln.h.s.type = "Raise" -> ExprHasMarker(ln.h.s.exc)
              [] ln.h.s.type = "ImportFrom" -> StartsWith(ln.h.s.name, N_tracer)
              [] OTHER -> FALSE
      [] OTHER -> FALSE

\* 'from .ai_agents.logging.runtime.tracer' in line
LineHasTracerImport(ln) ==
    /\ ln.h.h = "stmt"
    /\ ln.h.s.type = "ImportFrom"
    /\ ln.h.s.module = TracerModule

\* a guard that looks for the marker only
IsInstrumentedMarkerOnly(code) == \E i \in DOMAIN code : LineHasMarker(code[i])

\* PythonInstrumenter._is_instrumented
IsInstrumented(code) ==
    \/ \E i \in DOMAIN code : LineHasMarker(code[i])
    \/ \E i \in DOMAIN code : LineHasTracerImport(code[i])

\* a strip that removes the lines containing the marker only
RemoveMarkerLinesOnly(code) ==
    LET Keep(ln) == ~LineHasMarker(ln)
    IN  SelectSeq(code, Keep)

\* PythonInstrumenter._remove_instrumentation: split('\n'), filter, join
RemoveInstrumentation(code) ==
    LET Keep(ln) == ~LineHasMarker(ln) /\ ~LineHasTracerImport(ln)
    IN  SelectSeq(code, Keep)

\* an _add_tracer_import that returns the code as it is
AddNoImport(code) == code

\* PythonInstrumenter._add_tracer_import
AddTracerImport(code) == ImportStatement \o code

-----------------------------------------------------------------------------
(* astor.to_source: the tree as lines, one statement per line, blocks       *)
(* indented by one; it emits neither comments nor the source's blank lines. *)

RECURSIVE FlattenSeq(_)
FlattenSeq(ss) == IF ss = <<>> THEN <<>> ELSE Head(ss) \o FlattenSeq(Tail(ss))

RECURSIVE ToSourceStmt(_, _)
ToSourceStmt(node, ind) ==
    LET Block(body) == FlattenSeq([i \in DOMAIN body |-> ToSourceStmt(body[i], ind + 1)])
    IN  CASE node.type = "FunctionDef" ->
                <<Line(ind, HDef(FALSE, node.name, node.args))>> \o Block(node.body)
          [] node.type = "AsyncFunctionDef" ->
                <<Line(ind, HDef(TRUE, node.name, node.args))>> \o Block(node.body)
          [] node.type = "ClassDef" ->
                <<Line(ind, HClass(node.name))>> \o Block(node.body)
          [] node.type = "If" ->
                <<Line(ind, HIf(node.test))>> \o Block(node.body)
                  \o (IF node.orelse = <<>> THEN <<>>
                      ELSE <<Line(ind, HElse)>> \o Block(node.orelse))
          [] node.type = "ExceptHandler" ->
                <<Line(ind - 1, HExcept(node.etype, node.name))>>
                  \o FlattenSeq([i \in DOMAIN node.body |-> ToSourceStmt(node.body[i], ind)])
          [] node.type = "Try" ->
                <<Line(ind, HTry)>> \o Block(node.body)
                  \o Block(node.handlers)
                  \o (IF node.orelse = <<>> THEN <<>>
                      ELSE <<Line(ind, HElse)>> \o Block(node.orelse))
                  \o (IF node.finalbody = <<>> THEN <<>>
                      ELSE <<Line(ind, HFinally)>> \o Block(node.finalbody))
          [] OTHER -> <<Line(ind, HStmt(node))>>

\* astor.to_source(tree) for a Module
ToSource(tree) == FlattenSeq([i \in DOMAIN tree |-> ToSourceStmt(tree[i], 0)])

-----------------------------------------------------------------------------
(* ast.parse: recursive descent over the lines.  A block is the run of      *)
(* statements at one indentation depth; comments and blank lines are        *)
(* skipped; a compound statement needs a non-empty indented block; a try    *)
(* needs a handler or a finally.  Anything else is a SyntaxError.           *)

ParseError == [ok |-> FALSE, stmts |-> <<>>, next |-> 0]

RECURSIVE SkipBlank(_, _)
\* index of the first line at or after i that is no comment and not blank
SkipBlank(lines, i) ==
    IF i <= Len(lines) /\ lines[i].h.h \in {"comment", "blank"}
    THEN SkipBlank(lines, i + 1)
    ELSE i

\* the line at i opens clause h at depth ind
AtClause(lines, i, ind, h) ==
    /\ i <= Len(lines)
    /\ lines[i].ind = ind
    /\ lines[i].h.h = h

RECURSIVE ParseBlock(_, _, _)
RECURSIVE ParseStmt(_, _, _)
RECURSIVE ParseHandlers(_, _, _)

\* the statements at depth ind from line i on: [ok, stmts, next]
ParseBlock(lines, i0, ind) ==
    LET i == SkipBlank(lines, i0)
    IN  IF i > Len(lines) THEN [ok |-> TRUE, stmts |-> <<>>, next |-> i]
        ELSE IF lines[i].ind < ind THEN [ok |-> TRUE, stmts |-> <<>>, next |-> i]
        ELSE IF lines[i].ind > ind THEN ParseError
        ELSE IF lines[i].h.h \in {"else", "except", "finally"}
             THEN [ok |-> TRUE, stmts |-> <<>>, next |-> i]
        ELSE LET r == ParseStmt(lines, i, ind)
             IN  IF ~r.ok THEN ParseError
                 ELSE LET rest == ParseBlock(lines, r.next, ind)
                      IN  IF ~rest.ok THEN ParseError
                          ELSE [ok |-> TRUE, stmts |-> r.stmts \o rest.stmts,
                                next |-> rest.next]

\* a suite: the non-empty block at depth ind + 1 after a clause's opening line
ParseSuite(lines, i, ind) ==
    LET b == ParseBlock(lines, i, ind + 1)
    IN  IF b.ok /\ b.stmts # <<>> THEN b ELSE ParseError

\* the except clauses at depth ind from line i on: stmts are ExceptHandlers
ParseHandlers(lines, i0, ind) ==
    LET i == SkipBlank(lines, i0)
    IN  IF ~AtClause(lines, i, ind, "except")
        THEN [ok |-> TRUE, stmts |-> <<>>, next |-> i]
        ELSE LET b == ParseSuite(lines, i + 1, ind)
             IN  IF ~b.ok THEN ParseError
                 ELSE LET rest == ParseHandlers(lines, b.next, ind)
                      IN  IF ~rest.ok THEN ParseError
                          ELSE [ok |-> TRUE,
                                stmts |-> <<ExceptHandler(lines[i].h.etype,
                                                          lines[i].h.name, b.stmts)>>
                                            \o rest.stmts,
                                next |-> rest.next]

\* an optional clause h (else, finally) at depth ind at line i: its suite, or
\* an empty one
ParseOptional(lines, i0, ind, h) ==
    LET i == SkipBlank(lines, i0)
    IN  IF AtClause(lines, i, ind, h)
        THEN ParseSuite(lines, i + 1, ind)
        ELSE [ok |-> TRUE, stmts |-> <<>>, next |-> i]

\* the statement that starts at line i, at depth ind: [ok, stmts = <<stmt>>, next]
ParseStmt(lines, i, ind) ==
    LET h == lines[i].h
        One(stmt, next) == [ok |-> TRUE, stmts |-> <<stmt>>, next |-> next]
    IN  CASE h.h = "stmt" -> One(h.s, i + 1)
          [] h.h = "def" ->
                LET b == ParseSuite(lines, i + 1, ind)
                IN  IF ~b.ok THEN ParseError
                    ELSE One(IF h.async THEN AsyncFunctionDef(h.name, h.args, b.stmts)
                             ELSE FunctionDef(h.name, h.args, b.stmts), b.next)
          [] h.h = "class" ->
                LET b == ParseSuite(lines, i + 1, ind)
                IN  IF ~b.ok THEN ParseError ELSE One(ClassDef(h.name, b.stmts), b.next)
          [] h.h = "if" ->
                LET b == ParseSuite(lines, i + 1, ind)
                IN  IF ~b.ok THEN ParseError
                    ELSE LET e == ParseOptional(lines, b.next, ind, "else")
                         IN  IF ~e.ok THEN ParseError
                             ELSE One(If(h.test, b.stmts, e.stmts), e.next)
          [] h.h = "try" ->
                LET b == ParseSuite(lines, i + 1, ind)
                IN  IF ~b.ok THEN ParseError
                    ELSE LET hs == ParseHandlers(lines, b.next, ind)
                         IN  IF ~hs.ok THEN ParseError
                             ELSE LET e == IF hs.stmts = <<>>
                                           THEN [ok |-> TRUE, stmts |-> <<>>,
                                                 next |-> hs.next]
                                           ELSE ParseOptional(lines, hs.next, ind, "else")
                                  IN  IF ~e.ok THEN ParseError
                                      ELSE LET f == ParseOptional(lines, e.next, ind,
                                                                  "finally")
                                           IN  IF ~f.ok
                                                    \/ (hs.stmts = <<>> /\ f.stmts = <<>>)
                                               THEN ParseError
                                               ELSE One(Try(b.stmts, hs.stmts, e.stmts,
                                                            f.stmts), f.next)
          [] OTHER -> ParseError

\* ast.parse(code): [ok, stmts = Module.body]; not ok is a SyntaxError
AstParse(code) ==
    LET r == ParseBlock(code, 1, 0)
    IN  IF r.ok /\ r.next > Len(code) THEN r ELSE ParseError

-----------------------------------------------------------------------------
(* The file system.  A path is the sequence of its components; the bytes of *)
(* a file are its lines and the line terminator they are stored with.       *)

\* Path.cwd(): the project root
Cwd == <<"proj">>

\* line 309: self.backup_dir
BackupDir == Cwd \o <<".ai-agents", "logging", "backups", "original">>

FileA == Cwd \o <<"a.py">>
\* a file of the same name in a package
FileB == Cwd \o <<"pkg", "a.py">>
\* a file that is not under the project root
FileX == <<"tmp", "x.py">>

Files == {FileA, FileB, FileX}

\* Path(file_path).relative_to(Path.cwd()): ok is FALSE for the ValueError
RelativeTo(path, base) ==
    IF StartsWith(path, base)
    THEN [ok |-> TRUE, rel |-> SubSeq(path, Len(base) + 1, Len(path))]
    ELSE [ok |-> FALSE, rel |-> <<>>]

\* a backup path that keeps the file's name and drops its directories
GetBackupPathFlat(file_path) ==
    LET r == RelativeTo(file_path, Cwd)
    IN  [ok |-> r.ok,
         path |-> BackupDir \o (IF r.rel = <<>> THEN <<>> ELSE <<r.rel[Len(r.rel)]>>)]

\* PythonInstrumenter._get_backup_path, and lines 434-435 of _create_backup
GetBackupPath(file_path) ==
    LET r == RelativeTo(file_path, Cwd)
    IN  [ok |-> r.ok, path |-> BackupDir \o r.rel]

BackupPaths == {GetBackupPath(f).path : f \in {g \in Files : GetBackupPath(g).ok}}

\* no file at the path
Absent == [kind |-> "absent", nl |-> "lf", lines |-> <<>>]
\* bytes that are not UTF-8
Binary == [kind |-> "binary", nl |-> "lf", lines |-> <<>>]
\* a text file whose lines end in nl ("lf" or "crlf"); an empty file has no line ends
TextBytes(nl, lines) ==
    [kind |-> "text", nl |-> IF lines = <<>> THEN "lf" ELSE nl, lines |-> lines]
\* a file just opened with mode 'w'
Truncated == TextBytes("lf", <<>>)

\* open(path, 'r', encoding='utf-8').read(): universal newlines, every line end
\* is read as '\n'; ok is FALSE for FileNotFoundError and UnicodeDecodeError
ReadText(bytes) == [ok |-> bytes.kind = "text", code |-> bytes.lines]

\* f.write(code) on a file opened with mode 'w': '\n' is written as os.linesep
WriteText(sep, code) == TextBytes(sep, code)

-----------------------------------------------------------------------------
(* The programs on disk when a behaviour starts. *)

NoArgs == Arguments(<<>>, <<>>, <<>>, <<>>, <<>>)
ArgsA == Arguments(<<>>, <<N_a>>, <<>>, <<>>, <<>>)

\* # comment / def f(a): return 1
Prog1 ==
    <<Line(0, HComment(FALSE))>>
      \o ToSource(<<FunctionDef(N_f, ArgsA, <<Return(EConst(1))>>)>>)

\* def g(): (def in(): return 1) return 2 / class C: def __init__(): pass;
\* async def h(): pass
Prog2 ==
    ToSource(<<FunctionDef(N_g, NoArgs,
                           <<FunctionDef(N_in, NoArgs, <<Return(EConst(1))>>),
                             Return(EConst(2))>>),
               ClassDef(N_C, <<FunctionDef(N_init, NoArgs, <<Pass>>),
                               AsyncFunctionDef(N_h, NoArgs, <<Pass>>)>>)>>)

\* a file that is no Python
Prog3 == <<Line(0, HStmt(Pass)), Line(0, HGarbage)>>

\* a file never instrumented whose own code uses a name starting with __tracer
Prog4 == <<Line(0, HStmt(Expr(EName(N_tracer)))), Line(0, HStmt(Pass))>>

\* a file that imports another name from the tracer module
Prog5 == <<Line(0, HStmt(ImportFrom(TracerModule, N_a))), Line(0, HStmt(Pass))>>

Programs == {Prog1, Prog2, Prog3, Prog4, Prog5}

InitBytesA ==
    {TextBytes("lf", p) : p \in Programs} \cup {TextBytes("crlf", Prog1), Absent, Binary}
InitBytesB == {TextBytes("lf", Prog1)}
InitBytesX == {TextBytes("lf", Prog4)}

\* the restricting policies of the file-level specification: functions = ['f'];
\* TRACING_EXCLUDE_FUNCTIONS = ' g'
Policies ==
    {<< <<N_f>>, <<>>, <<>>, <<>> >>,
     << <<>>, <<>>, <<" ", "g">>, <<>> >>}

\* options.level: one value for each branch of visit_FunctionDef (0, 1, 2, else)
Levels == {0, 1, 2, 3}

\* the options instrument_file is called with in the file-level specification
OptionsPool ==
    {MkOptions(l, <<>>, <<>>, <<>>, <<>>) : l \in Levels}
      \cup {MkOptions(2, p[1], p[2], p[3], p[4]) : p \in Policies}

-----------------------------------------------------------------------------
(* PythonInstrumenter.instrument_file, step by step.  A call reads the      *)
(* file, opens and writes the backup, rewrites the code in memory, opens    *)
(* and writes the file.  open(path, 'w') truncates the file it opens;       *)
(* an open or a write may raise OSError (a fault).                          *)

DefaultOptions == MkOptions(2, <<>>, <<>>, <<>>, <<>>)

\* the dict returned by instrument_file; has_code: the keys original_code and
\* instrumented_code are present
NoResult ==
    [success |-> FALSE, error |-> "", functions_wrapped |-> 0, backup_path |-> <<>>,
     has_code |-> FALSE, original_code |-> <<>>, instrumented_code |-> <<>>]

\* lines 324-329
ResultAlreadyInstrumented(backup_path) ==
    [NoResult EXCEPT !.error = "File is already instrumented. Use uninstrument first.",
                     !.backup_path = backup_path]

\* lines 351-357
ResultSuccess(original_code, instrumented_code, functions_wrapped, backup_path) ==
    [success |-> TRUE, error |-> "", functions_wrapped |-> functions_wrapped,
     backup_path |-> backup_path, has_code |-> TRUE,
     original_code |-> original_code, instrumented_code |-> instrumented_code]

\* lines 359-365: str(e) of the exception caught
ResultException(message) == [NoResult EXCEPT !.error = message]

\* the steps of instrument_file that can raise
InstrumentSteps == {"read", "backup", "parse", "emit", "write"}

\* a try block that begins after the backup was taken
TryBlockAfterBackup == {"parse", "emit", "write"}

\* lines 314 and 359: the statements inside try ... except Exception
InstrumentTryBlock == InstrumentSteps

\* lines 369 and 388: the statements of uninstrument_file inside its try
UninstrumentTryBlock == {"backup_path", "read", "write"}

IdleCall ==
    [pc |-> "idle", o |-> DefaultOptions, original_code |-> <<>>,
     backup_path |-> <<>>, instrumented_code |-> <<>>, functions_wrapped |-> 0,
     pre |-> Absent, pre_bk |-> Absent,
     snapshot_written |-> FALSE, file_opens |-> 0, opened_after_snapshot |-> TRUE]

\* what is remembered of the last operation completed on a file:
\*   op, restore, o     the operation and its arguments
\*   pre, pre_bk        the file and its backup when the operation began
\*   result, ret        what instrument_file / uninstrument_file returned
\*   exc, at            the message of the exception raised, and the step
\*   escaped            the exception left the operation uncaught
\*   snapshot_written, file_opens, opened_after_snapshot   what the call did
\*   prev_op, prev_pre  the operation completed on the file before this one
\*   orig, pure         the file when the behaviour began; every operation on
\*                      it so far was instrument_file or a restore
NoOp ==
    [op |-> "none", restore |-> FALSE, o |-> DefaultOptions,
     pre |-> Absent, pre_bk |-> Absent, result |-> NoResult, ret |-> FALSE,
     exc |-> "", at |-> "", escaped |-> FALSE,
     snapshot_written |-> FALSE, file_opens |-> 0, opened_after_snapshot |-> TRUE,
     prev_op |-> "none", prev_pre |-> Absent, orig |-> Absent, pure |-> TRUE]

\* the backup of file f (Absent for a file outside the project root)
BackupOf(f) == IF GetBackupPath(f).ok THEN bk[GetBackupPath(f).path] ELSE Absent

FaultChoices == IF faults < MaxFaults THEN {FALSE, TRUE} ELSE {FALSE}

\* instrument_file returns `result` (or lets the exception escape)
InstrumentReturn(f, c, result, exc, at, escaped) ==
    /\ last' = [last EXCEPT ![f] =
                  [op |-> "instrument", restore |-> FALSE, o |-> c.o,
                   pre |-> c.pre, pre_bk |-> c.pre_bk, result |-> result,
                   ret |-> FALSE, exc |-> exc, at |-> at, escaped |-> escaped,
                   snapshot_written |-> c.snapshot_written,
                   file_opens |-> c.file_opens,
                   opened_after_snapshot |-> c.opened_after_snapshot,
                   prev_op |-> last[f].op, prev_pre |-> last[f].pre,
                   orig |-> last[f].orig, pure |-> last[f].pure]]
    /\ call' = [call EXCEPT ![f] = IdleCall]

\* an exception raised at step `at` of instrument_file: caught at line 359
\* when the step is inside the try block
InstrumentRaise(f, c, message, at) ==
    IF at \in InstrumentTryBlock
    THEN InstrumentReturn(f, c, ResultException(message), message, at, FALSE)
    ELSE InstrumentReturn(f, c, NoResult, message, at, TRUE)

\* lines 315-317: the call begins and reads the file
InstrumentRead(f, o) ==
    /\ call[f].pc = "idle"
    /\ ops < MaxOps
    /\ LET c == [IdleCall EXCEPT !.o = o, !.pre = fs[f], !.pre_bk = BackupOf(f)]
           r == ReadText(fs[f])
       IN  IF ~r.ok
           THEN InstrumentRaise(f, c, "cannot read the file", "read")
           ELSE /\ call' = [call EXCEPT ![f] =
                              [c EXCEPT !.pc = "backup", !.original_code = r.code]]
                /\ UNCHANGED last
    /\ ops' = ops + 1
    /\ UNCHANGED <<linesep, fs, bk, faults>>

\* _create_backup, lines 434-441: the backup path, then open(backup_path, 'w')
InstrumentBackupOpen(f) ==
    /\ call[f].pc = "backup"
    /\ LET c == call[f]
           p == GetBackupPath(f)
       IN  IF ~p.ok
           THEN /\ InstrumentRaise(f, c, "path is not in the subpath of the cwd", "backup")
                /\ UNCHANGED <<bk, faults>>
           ELSE \E fault \in FaultChoices :
                  IF fault
                  THEN /\ InstrumentRaise(f, c, "cannot open the backup", "backup")
                       /\ faults' = faults + 1
                       /\ UNCHANGED bk
                  ELSE /\ bk' = [bk EXCEPT ![p.path] = Truncated]
                       /\ call' = [call EXCEPT ![f] = [c EXCEPT !.pc = "backup_write"]]
                       /\ UNCHANGED <<last, faults>>
    /\ UNCHANGED <<linesep, fs, ops>>

\* _create_backup, lines 442-444: f.write(content), return backup_path
InstrumentBackupWrite(f) ==
    /\ call[f].pc = "backup_write"
    /\ LET c == call[f]
           p == GetBackupPath(f)
       IN  \E fault \in FaultChoices :
              IF fault
              THEN /\ InstrumentRaise(f, c, "cannot write the backup", "backup")
                   /\ faults' = faults + 1
                   /\ UNCHANGED bk
              ELSE /\ bk' = [bk EXCEPT ![p.path] = WriteText(linesep, c.original_code)]
                   /\ call' = [call EXCEPT ![f] =
                                 [c EXCEPT !.pc = "transform", !.backup_path = p.path,
                                           !.snapshot_written = TRUE]]
                   /\ UNCHANGED <<last, faults>>
    /\ UNCHANGED <<linesep, fs, ops>>

\* lines 322-345: the idempotency guard, ast.parse, FunctionWrapper.visit,
\* astor.to_source (which may raise on a tree it cannot emit), _add_tracer_import
InstrumentTransform(f) ==
    /\ call[f].pc = "transform"
    /\ LET c == call[f]
           parsed == AstParse(c.original_code)
           new_tree == VisitModule(c.o, f, parsed.stmts)
           wrapped_count == ModuleFunctionsWrapped(c.o, parsed.stmts)
       IN  IF IsInstrumented(c.original_code)
           THEN /\ InstrumentReturn(f, c, ResultAlreadyInstrumented(c.backup_path),
                                    "", "", FALSE)
                /\ UNCHANGED faults
           ELSE IF ~parsed.ok
           THEN /\ InstrumentRaise(f, c, "invalid syntax", "parse")
                /\ UNCHANGED faults
           ELSE \E fault \in FaultChoices :
                  IF fault
                  THEN /\ InstrumentRaise(f, c, "to_source failed", "emit")
                       /\ faults' = faults + 1
                  ELSE /\ call' = [call EXCEPT ![f] =
                                     [c EXCEPT !.pc = "write",
                                               !.functions_wrapped = wrapped_count,
                                               !.instrumented_code =
                                                   AddTracerImport(ToSource(new_tree))]]
                       /\ UNCHANGED <<last, faults>>
    /\ UNCHANGED <<linesep, fs, bk, ops>>

\* line 348: open(file_path, 'w')
InstrumentOpen(f) ==
    /\ call[f].pc = "write"
    /\ LET c == call[f]
       IN  \E fault \in FaultChoices :
              IF fault
              THEN /\ InstrumentRaise(f, c, "cannot open the file for writing", "write")
                   /\ faults' = faults + 1
                   /\ UNCHANGED fs
              ELSE /\ fs' = [fs EXCEPT ![f] = Truncated]
                   /\ call' = [call EXCEPT ![f] =
                                 [c EXCEPT !.pc = "write_data",
                                           !.file_opens = c.file_opens + 1,
                                           !.opened_after_snapshot =
                                               c.snapshot_written]]
                   /\ UNCHANGED <<last, faults>>
    /\ UNCHANGED <<linesep, bk, ops>>

\* an instrument_file whose result holds the emitted code without the import
InstrumentWriteReportsEmitted(f) ==
    /\ call[f].pc = "write_data"
    /\ LET c == call[f]
       IN  \E fault \in FaultChoices :
              IF fault
              THEN /\ InstrumentRaise(f, c, "cannot write the file", "write")
                   /\ faults' = faults + 1
                   /\ UNCHANGED fs
              ELSE /\ fs' = [fs EXCEPT ![f] = WriteText(linesep, c.instrumented_code)]
                   /\ InstrumentReturn(f, c,
                                       ResultSuccess(c.original_code,
                                                     Tail(c.instrumented_code),
                                                     c.functions_wrapped, c.backup_path),
                                       "", "", FALSE)
                   /\ UNCHANGED faults
    /\ UNCHANGED <<linesep, bk, ops>>

\* lines 349-357: f.write(instrumented_code), return the success dict
InstrumentWrite(f) ==
    /\ call[f].pc = "write_data"
    /\ LET c == call[f]
       IN  \E fault \in FaultChoices :
              IF fault
              THEN /\ InstrumentRaise(f, c, "cannot write the file", "write")
                   /\ faults' = faults + 1
                   /\ UNCHANGED fs
              ELSE /\ fs' = [fs EXCEPT ![f] = WriteText(linesep, c.instrumented_code)]
                   /\ InstrumentReturn(f, c,
                                       ResultSuccess(c.original_code, c.instrumented_code,
                                                     c.functions_wrapped, c.backup_path),
                                       "", "", FALSE)
                   /\ UNCHANGED faults
    /\ UNCHANGED <<linesep, bk, ops>>

-----------------------------------------------------------------------------
(* PythonInstrumenter.uninstrument_file.  fault names the statement that    *)
(* raises OSError, if any: "read", "open" or "write".                       *)

UninstrumentFaults == IF faults < MaxFaults THEN {"none", "read", "open", "write"} ELSE {"none"}

\* an uninstrument_file whose restore consumes the backup
UninstrumentReturnDropsBackup(f, restore, ret, exc, at) ==
    /\ last' = [last EXCEPT ![f] =
                  [NoOp EXCEPT !.op = "uninstrument", !.restore = restore,
                               !.pre = fs[f], !.pre_bk = BackupOf(f),
                               !.ret = ret, !.exc = exc, !.at = at,
                               !.prev_op = last[f].op, !.prev_pre = last[f].pre,
                               !.orig = last[f].orig,
                               !.pure = last[f].pure /\ restore]]
    /\ bk' = IF restore /\ ret
             THEN [bk EXCEPT ![GetBackupPath(f).path] = Absent]
             ELSE bk
    /\ UNCHANGED <<linesep, call>>

\* uninstrument_file returns ret; exc is the message of the exception caught at
\* line 388, raised by the statement `at`
UninstrumentReturn(f, restore, ret, exc, at) ==
    /\ last' = [last EXCEPT ![f] =
                  [NoOp EXCEPT !.op = "uninstrument", !.restore = restore,
                               !.pre = fs[f], !.pre_bk = BackupOf(f),
                               !.ret = IF at \in UninstrumentTryBlock \cup {""}
                                       THEN ret ELSE FALSE,
                               !.exc = exc, !.at = at,
                               !.escaped = at \notin UninstrumentTryBlock \cup {""},
                               !.prev_op = last[f].op, !.prev_pre = last[f].pre,
                               !.orig = last[f].orig,
                               !.pure = last[f].pure /\ restore]]
    /\ UNCHANGED <<linesep, bk, call>>

\* the with-blocks that write `code` to file f (lines 376-377 and 384-385)
UninstrumentWriteBack(f, restore, code, fault) ==
    CASE fault = "open" ->
            /\ UninstrumentReturn(f, restore, FALSE, "cannot open the file for writing",
                                  "write")
            /\ UNCHANGED fs
      [] fault = "write" ->
            /\ UninstrumentReturn(f, restore, FALSE, "cannot write the file", "write")
            /\ fs' = [fs EXCEPT ![f] = Truncated]
      [] OTHER ->
            /\ UninstrumentReturn(f, restore, TRUE, "", "")
            /\ fs' = [fs EXCEPT ![f] = WriteText(linesep, code)]

\* an uninstrument_file whose restore strips the file when it has no backup
UninstrumentFallsBack(f, restore) ==
    /\ call[f].pc = "idle"
    /\ ops < MaxOps
    /\ ops' = ops + 1
    /\ \E fault \in UninstrumentFaults :
         /\ faults' = IF fault = "none" THEN faults ELSE faults + 1
         /\ IF restore /\ GetBackupPath(f).ok /\ BackupOf(f).kind # "absent"
            THEN IF fault = "read" \/ ~ReadText(BackupOf(f)).ok
                 THEN /\ UninstrumentReturn(f, restore, FALSE,
                                            "cannot read the backup", "read")
                      /\ UNCHANGED fs
                 ELSE UninstrumentWriteBack(f, restore, ReadText(BackupOf(f)).code, fault)
            ELSE IF fault = "read" \/ ~ReadText(fs[f]).ok
                 THEN /\ UninstrumentReturn(f, restore, FALSE, "cannot read the file",
                                            "read")
                      /\ UNCHANGED fs
                 ELSE UninstrumentWriteBack(f, restore,
                                            RemoveInstrumentation(ReadText(fs[f]).code),
                                            fault)

\* uninstrument_file(file_path, restore)
Uninstrument(f, restore) ==
    /\ call[f].pc = "idle"
    /\ ops < MaxOps
    /\ ops' = ops + 1
    /\ \E fault \in UninstrumentFaults :
         /\ faults' = IF fault = "none" THEN faults ELSE faults + 1
         /\ IF restore
            THEN LET p == GetBackupPath(f)
                 IN  IF ~p.ok
                     THEN /\ fault = "none"
                          /\ UninstrumentReturn(f, restore, FALSE,
                                                "path is not in the subpath of the cwd",
                                                "backup_path")
                          /\ UNCHANGED fs
                     ELSE IF bk[p.path].kind = "absent"
                     THEN /\ fault = "none"
                          /\ UninstrumentReturn(f, restore, FALSE, "", "")
                          /\ UNCHANGED fs
                     ELSE IF fault = "read" \/ ~ReadText(bk[p.path]).ok
                     THEN /\ UninstrumentReturn(f, restore, FALSE,
                                                "cannot read the backup", "read")
                          /\ UNCHANGED fs
                     ELSE UninstrumentWriteBack(f, restore, ReadText(bk[p.path]).code,
                                                fault)
            ELSE IF fault = "read" \/ ~ReadText(fs[f]).ok
                 THEN /\ UninstrumentReturn(f, restore, FALSE, "cannot read the file",
                                            "read")
                      /\ UNCHANGED fs
                 ELSE UninstrumentWriteBack(f, restore,
                                            RemoveInstrumentation(ReadText(fs[f]).code),
                                            fault)

-----------------------------------------------------------------------------
(* The file-level specification: the operations are called one after        *)
(* another, on any file, with any options; a behaviour may stop anywhere    *)
(* (the process is killed).                                                 *)

\* no instrument_file call is in progress
Sequential == \A g \in Files : call[g].pc = "idle"

\* the state of the SpecMemory variables in the other specifications
MemIdle ==
    /\ store = [none |-> TRUE, keys |-> {}, metadata |-> {}]
    /\ local = [importable |-> FALSE, state_file |-> "absent"]
    /\ done = [op |-> "none"]

\* the state of the SpecWrap variables in the file-level specifications
WrapIdle ==
    /\ fn = Pass
    /\ wrapped = [o |-> DefaultOptions, node |-> Pass]
    /\ runs = <<>>
    /\ phase = "off"

Init ==
    /\ linesep \in {"lf", "crlf"}
    /\ fs \in {[f \in Files |-> CASE f = FileA -> a [] f = FileB -> b [] OTHER -> x] :
                  a \in InitBytesA, b \in InitBytesB, x \in InitBytesX}
    /\ bk = [p \in BackupPaths |-> Absent]
    /\ call = [f \in Files |-> IdleCall]
    /\ last = [f \in Files |-> [NoOp EXCEPT !.orig = fs[f]]]
    /\ faults = 0
    /\ ops = 0
    /\ WrapIdle
    /\ MemIdle

\* the files the operations of Spec are called on
SpecFiles == {FileA, FileX}

\* the options tried on file f: every one on FileA, the default elsewhere
OptionsFor(f) == IF f = FileA THEN OptionsPool ELSE {DefaultOptions}

StartInstrument ==
    Sequential /\ \E f \in SpecFiles : \E o \in OptionsFor(f) : InstrumentRead(f, o)

StepInstrument ==
    \E f \in SpecFiles :
        \/ InstrumentBackupOpen(f)
        \/ InstrumentBackupWrite(f)
        \/ InstrumentTransform(f)
        \/ InstrumentOpen(f)
        \/ InstrumentWrite(f)

CallUninstrument ==
    Sequential /\ \E f \in SpecFiles, restore \in BOOLEAN : Uninstrument(f, restore)

Next ==
    \/ StartInstrument /\ UNCHANGED <<wrapVars, memVars>>
    \/ StepInstrument /\ UNCHANGED <<wrapVars, memVars>>
    \/ CallUninstrument /\ UNCHANGED <<wrapVars, memVars>>

Spec == Init /\ [][Next]_vars

-----------------------------------------------------------------------------
(* Running a function body: Python's semantics for the statements of the    *)
(* tree, against a tracer runtime that records every hook call.  Values are *)
(* integers (None is 0); an exception is a record of its class and identity.*)

NoExc == [cls |-> "none", id |-> 0]
ExcObject(cls, id) == [cls |-> cls, id |-> id]
\* the NameError raised for a name that is not bound
NameError == ExcObject("Exception", 99)

\* the context handle start_function returns for the invocation under study
TheCtx == 1

\* a call of a tracer hook, as the runtime sees it
Event(hook, ctx, v, e) == [hook |-> hook, ctx |-> ctx, v |-> v, e |-> e]

\* the local scope of an invocation: the binding of __ctx (0: unbound), the
\* binding of error, the functions defined so far, and the hook calls so far
EmptyEnv == [ctx |-> 0, err |-> NoExc, funcs |-> <<>>, tr |-> <<>>]

\* the outcome of a statement or an expression: kind is "normal", "return" or
\* "raise"; v the value; e the exception raised, or the exception a normal
\* expression denotes; bare: the return had no expression
Outcome(kind, v, e, bare, env) == [kind |-> kind, v |-> v, e |-> e, bare |-> bare, env |-> env]
Normal(v, env) == Outcome("normal", v, NoExc, FALSE, env)
Raised(e, env) == Outcome("raise", 0, e, FALSE, env)

\* except etype: catches exception e
Catches(etype, e) == etype = "BaseException" \/ e.cls = etype

\* the last definition of name f in scope, or 0
LookupFunc(funcs, f) ==
    LET hits == {i \in DOMAIN funcs : funcs[i].name = f}
    IN  IF hits = {} THEN 0 ELSE CHOOSE i \in hits : \A j \in hits : j <= i

RECURSIVE Eval(_, _)
RECURSIVE EvalArgs(_, _, _)
RECURSIVE ExecStmt(_, _)
RECURSIVE ExecBlock(_, _)

\* the tracer runtime: hook attr called with the evaluated arguments a
\* (end_function returns its value argument unchanged)
CallTracer(attr, a, env) ==
    LET Log(ev) == [env EXCEPT !.tr = Append(env.tr, ev)]
    IN  CASE attr = "start_function" ->
                Normal(TheCtx, Log(Event("start_function", TheCtx, 0, NoExc)))
          [] attr = "end_function" ->
                Normal(a[2].v, Log(Event("end_function", a[1].v, a[2].v, NoExc)))
          [] attr = "error_function" ->
                Normal(0, Log(Event("error_function", a[1].v, 0, a[2].e)))
          [] OTHER -> Normal(0, Log(Event(attr, 0, 0, NoExc)))

\* the arguments args[i..], left to right: [ok, vals, env], or the raise
EvalArgs(args, i, env) ==
    IF i > Len(args) THEN [ok |-> TRUE, vals |-> <<>>, out |-> Normal(0, env)]
    ELSE LET r == Eval(args[i], env)
         IN  IF r.kind = "raise" THEN [ok |-> FALSE, vals |-> <<>>, out |-> r]
             ELSE LET rest == EvalArgs(args, i + 1, r.env)
                  IN  IF ~rest.ok THEN rest
                      ELSE [ok |-> TRUE, vals |-> <<r>> \o rest.vals, out |-> rest.out]

\* the value of expression e in scope env
Eval(e, env) ==
    CASE e.k = "Const" -> Normal(e.v, env)
      [] e.k = "Exc" -> Outcome("normal", 0, ExcObject(e.cls, e.id), FALSE, env)
      [] e.k = "Fail" -> Raised(ExcObject(e.exc.cls, e.exc.id), env)
      [] e.k = "Name" ->
            IF e.id = N_ctx
            THEN (IF env.ctx = 0 THEN Raised(NameError, env) ELSE Normal(env.ctx, env))
            ELSE IF e.id = N_error
            THEN (IF env.err = NoExc THEN Raised(NameError, env)
                  ELSE Outcome("normal", 0, env.err, FALSE, env))
            ELSE Normal(0, env)
      [] e.k = "Call" ->
            LET i == LookupFunc(env.funcs, e.f)
            IN  IF i = 0 THEN Raised(NameError, env)
                ELSE IF env.funcs[i].async THEN Normal(0, env)
                ELSE LET r == ExecBlock(env.funcs[i].body, [env EXCEPT !.err = NoExc])
                         back == [env EXCEPT !.tr = r.env.tr]
                     IN  IF r.kind = "raise" THEN Raised(r.e, back)
                         ELSE Normal(r.v, back)
      [] e.k = "Tracer" ->
            LET a == EvalArgs(e.args, 1, env)
            IN  IF ~a.ok THEN a.out ELSE CallTracer(e.attr, a.vals, a.out.env)
      [] OTHER -> Normal(0, env)

\* the statements of a block, in order, until one returns or raises
ExecBlock(stmts, env) ==
    IF stmts = <<>> THEN Normal(0, env)
    ELSE LET r == ExecStmt(Head(stmts), env)
         IN  IF r.kind = "normal" THEN ExecBlock(Tail(stmts), r.env) ELSE r

\* one statement
ExecStmt(s, env) ==
    CASE s.type = "Expr" ->
            LET r == Eval(s.value, env)
            IN  IF r.kind = "raise" THEN r ELSE Normal(0, r.env)
      [] s.type = "Assign" ->
            LET r == Eval(s.value, env)
            IN  IF r.kind = "raise" THEN r
                ELSE IF s.target = N_ctx THEN Normal(0, [r.env EXCEPT !.ctx = r.v])
                ELSE Normal(0, r.env)
      [] s.type = "Return" ->
            IF s.value = ENone THEN Outcome("return", 0, NoExc, TRUE, env)
            ELSE LET r == Eval(s.value, env)
                 IN  IF r.kind = "raise" THEN r
                     ELSE Outcome("return", r.v, NoExc, FALSE, r.env)
      [] s.type = "Raise" ->
            LET r == Eval(s.exc, env)
            IN  IF r.kind = "raise" THEN r ELSE Raised(r.e, r.env)
      [] s.type = "If" ->
            LET r == Eval(s.test, env)
            IN  IF r.kind = "raise" THEN r
                ELSE IF r.v # 0 THEN ExecBlock(s.body, r.env)
                ELSE ExecBlock(s.orelse, r.env)
      [] s.type \in {"FunctionDef", "AsyncFunctionDef"} ->
            Normal(0, [env EXCEPT !.funcs =
                          Append(env.funcs,
                                 [name |-> s.name,
                                  async |-> s.type = "AsyncFunctionDef",
                                  body |-> s.body])])
      [] s.type = "Try" ->
            LET r1 == ExecBlock(s.body, env)
                hs == {i \in DOMAIN s.handlers : Catches(s.handlers[i].etype, r1.e)}
                r2 == IF r1.kind = "raise" /\ hs # {}
                      THEN LET h == s.handlers[CHOOSE i \in hs : \A j \in hs : i <= j]
                               r == ExecBlock(h.body, [r1.env EXCEPT !.err = r1.e])
                           IN  [r EXCEPT !.env.err = env.err]
                      ELSE IF r1.kind = "normal" THEN ExecBlock(s.orelse, r1.env)
                      ELSE r1
            IN  IF s.finalbody = <<>> THEN r2
                ELSE LET r3 == ExecBlock(s.finalbody, r2.env)
                     IN  IF r3.kind = "normal" THEN [r2 EXCEPT !.env = r3.env] ELSE r3
      [] OTHER -> Normal(0, env)

\* a call of the function defined by node (for a coroutine: awaiting it)
Invoke(node) == ExecBlock(node.body, EmptyEnv)

\* the hook calls of outcome r whose hook is named h
HookCalls(r, h) == SelectSeq(r.env.tr, LAMBDA ev : ev.hook = h)

-----------------------------------------------------------------------------
(* The function-level specification SpecWrap: a function definition is      *)
(* drawn from a family of bodies, FunctionWrapper visits it, and then the   *)
(* original and the rewritten definition are each called once.              *)

\* the exceptions the bodies raise: one inside the Exception hierarchy, one
\* outside it (SystemExit, KeyboardInterrupt, asyncio.CancelledError, ...)
BodyExcs == {EExc("Exception", 1), EExc("BaseException", 2)}

\* the simple statements of the bodies
SimpleStmts ==
    {Pass, Return(ENone), Return(EFail(EExc("Exception", 1))),
     Expr(ECall(N_in)), Return(ECall(N_in))}
      \cup {Return(EConst(v)) : v \in 1..MaxVal}
      \cup {Raise(x) : x \in BodyExcs}

\* the bodies of the nested function `in`
InnerBodies == {<<Pass>>, <<Return(ENone)>>, <<Return(EConst(1))>>,
                <<Raise(EExc("Exception", 1))>>}

\* straight-line bodies of one or two statements
FlatBodies ==
    {<<a>> : a \in SimpleStmts} \cup {<<a, b>> : a, b \in SimpleStmts}

\* if c: a [else: b]
IfBodies ==
    {<<If(EConst(c), <<a>>, e)>> :
        c \in {0, 1}, a \in SimpleStmts, e \in {<<>>} \cup {<<b>> : b \in SimpleStmts}}

\* the bodies of the handlers and of the finally clauses of the family
HandlerChoices ==
    {<<>>} \cup {<<ExceptHandler("Exception", N_error, <<h>>)>> :
                    h \in {Pass, Return(EConst(1)), Raise(EName(N_error))}}
FinallyChoices == {<<>>, <<Pass>>, <<Return(EConst(1))>>}

\* try: a [except Exception as error: h] [finally: f], with one clause at least
TryShapes ==
    {sh \in HandlerChoices \X FinallyChoices : sh[1] # <<>> \/ sh[2] # <<>>}

TryBodies ==
    {<<Try(<<a>>, sh[1], <<>>, sh[2])>> : a \in SimpleStmts, sh \in TryShapes}

CoreBodies == FlatBodies \cup IfBodies \cup TryBodies

\* a core body, alone or after the definition of a nested function `in`
Bodies ==
    CoreBodies
      \cup {<<FunctionDef(N_in, NoArgs, ib)>> \o b : ib \in InnerBodies, b \in CoreBodies}

\* the definitions under study: def f(a): body and async def f(a): body
FnPool ==
    {FunctionDef(N_f, ArgsA, b) : b \in Bodies}
      \cup {AsyncFunctionDef(N_f, ArgsA, b) : b \in Bodies}

\* the options of SpecWrap: every level with no restriction, and level 2
\* with f excluded
WrapOptions ==
    {MkOptions(l, <<>>, <<>>, <<>>, <<>>) : l \in Levels}
      \cup {MkOptions(2, <<>>, <<N_f>>, <<>>, <<>>)}

\* the state of the file-level variables in SpecWrap
FilesIdle ==
    /\ linesep = "lf"
    /\ fs = [f \in Files |-> Absent]
    /\ bk = [p \in BackupPaths |-> Absent]
    /\ call = [f \in Files |-> IdleCall]
    /\ last = [f \in Files |-> NoOp]
    /\ faults = 0
    /\ ops = 0

NoRun == Normal(0, EmptyEnv)

InitWrap ==
    /\ FilesIdle
    /\ MemIdle
    /\ fn \in FnPool
    /\ wrapped = [o |-> DefaultOptions, node |-> Pass]
    /\ runs = [orig |-> NoRun, inst |-> NoRun]
    /\ phase = "init"

\* transformer.visit(fn) with options o
Wrap(o) ==
    /\ phase = "init"
    /\ wrapped' = [o |-> o, node |-> FunctionWrapperVisit(o, FileA, fn)]
    /\ phase' = "wrapped"
    /\ UNCHANGED <<fn, runs>>

\* one call of the original definition and one of the rewritten definition
InvokeBoth ==
    /\ phase = "wrapped"
    /\ runs' = [orig |-> Invoke(fn), inst |-> Invoke(wrapped.node)]
    /\ phase' = "ran"
    /\ UNCHANGED <<fn, wrapped>>

NextWrap ==
    \/ (\E o \in WrapOptions : Wrap(o)) /\ UNCHANGED <<fileVars, memVars>>
    \/ InvokeBoth /\ UNCHANGED <<fileVars, memVars>>

SpecWrap == InitWrap /\ [][NextWrap]_vars

-----------------------------------------------------------------------------
(* Properties of instrument_file and uninstrument_file, checked under Spec. *)

\* the text of a file, as the operations read it (no line for what cannot be read)
TextOf(bytes) == ReadText(bytes).code

\* the text contains the marker '__tracer' or the tracer import text
ContainsTracerText(code) ==
    \E i \in DOMAIN code : LineHasMarker(code[i]) \/ LineHasTracerImport(code[i])

\* instrument_file has returned on file f and no call on f is in progress
InstrumentDone(f) == call[f].pc = "idle" /\ last[f].op = "instrument"

\* C1: instrument_file(F, options) immediately followed by
\* uninstrument_file(F, restore=True) leaves F with content identical to the
\* content it had before the instrument_file call (no I/O fault occurring).
C1_RoundTripViaRestore ==
    \A f \in Files :
        (/\ faults = 0
         /\ call[f].pc = "idle"
         /\ last[f].op = "uninstrument"
         /\ last[f].restore
         /\ last[f].prev_op = "instrument")
            => fs[f] = last[f].prev_pre

\* C2: starting from an uninstrumented file F, after any sequence of
\* instrument_file(F) and uninstrument_file(F, restore=True) calls, the backup
\* of F, once it exists, holds the text F had at the start (no I/O fault
\* occurring, compared as text so that line ends do not matter).
C2_BackupHoldsOriginal ==
    \A f \in Files :
        (/\ faults = 0
         /\ call[f].pc = "idle"
         /\ last[f].pure
         /\ ReadText(last[f].orig).ok
         /\ ~ContainsTracerText(TextOf(last[f].orig))
         /\ BackupOf(f).kind # "absent")
            => /\ ReadText(BackupOf(f)).ok
               /\ TextOf(BackupOf(f)) = TextOf(last[f].orig)

\* C3: whenever instrument_file returns a result with success = False, the
\* content of the target file is the same as before the call.
C3_FailureLeavesFileUntouched ==
    \A f \in Files :
        (InstrumentDone(f) /\ ~last[f].escaped /\ ~last[f].result.success)
            => fs[f] = last[f].pre

\* C4 as stated: instrument_file on a file whose content contains the marker
\* or the tracer import text returns success = False, functions_wrapped = 0
\* and a populated backup_path, and leaves the file unchanged.
C4_GuardAlwaysReportsBackup ==
    \A f \in Files :
        (InstrumentDone(f) /\ ReadText(last[f].pre).ok
            /\ ContainsTracerText(TextOf(last[f].pre)))
            => /\ ~last[f].result.success
               /\ last[f].result.functions_wrapped = 0
               /\ last[f].result.backup_path # <<>>
               /\ fs[f] = last[f].pre

\* C4 amended: instrument_file on a file whose content contains the marker or
\* the tracer import text returns success = False and functions_wrapped = 0
\* and leaves the file unchanged; backup_path is the path of the backup when
\* the backup was written, and is empty when taking the backup raised.
C4_GuardRefusesInstrumented ==
    \A f \in Files :
        (InstrumentDone(f) /\ ReadText(last[f].pre).ok
            /\ ContainsTracerText(TextOf(last[f].pre)))
            => /\ ~last[f].result.success
               /\ last[f].result.functions_wrapped = 0
               /\ fs[f] = last[f].pre
               /\ last[f].result.backup_path =
                     (IF last[f].snapshot_written THEN GetBackupPath(f).path ELSE <<>>)
               /\ ~last[f].snapshot_written => last[f].at = "backup"

\* the guard has refused a file that carries the tracer import text, after its
\* backup was written
C4_Witness ==
    \E f \in Files :
        /\ InstrumentDone(f)
        /\ \E i \in DOMAIN TextOf(last[f].pre) : LineHasTracerImport(TextOf(last[f].pre)[i])
        /\ last[f].snapshot_written
        /\ last[f].result.backup_path = GetBackupPath(f).path
        /\ ~last[f].result.success

\* C5: no exception escapes instrument_file or uninstrument_file: whichever
\* step raises, instrument_file returns success = False with error set to the
\* exception's message, and uninstrument_file returns False.
C5_NoExceptionEscapes ==
    \A f \in Files :
        /\ ~last[f].escaped
        /\ (last[f].op = "instrument" /\ last[f].exc # "")
              => /\ ~last[f].result.success
                 /\ last[f].result.error = last[f].exc
        /\ (last[f].op = "uninstrument" /\ last[f].exc # "") => ~last[f].ret

\* computing the backup path has raised inside instrument_file, and the call
\* has returned
C5_Witness ==
    \E f \in Files :
        /\ last[f].op = "instrument"
        /\ last[f].at = "backup"
        /\ last[f].exc # ""
        /\ ~last[f].result.success

\* C6: in every call of instrument_file the target file is opened for writing
\* at most once and only after the snapshot was written; and at any point of a
\* call on a readable, not yet instrumented file, the content the file had
\* before the call is intact in the file or in its backup.
C6_PreCallContentSurvives ==
    \A f \in Files :
        /\ call[f].file_opens <= 1
        /\ call[f].opened_after_snapshot
        /\ (call[f].pc # "idle" /\ ReadText(call[f].pre).ok
               /\ ~ContainsTracerText(TextOf(call[f].pre)))
              => (fs[f] = call[f].pre \/ BackupOf(f) = call[f].pre)

RECURSIVE CountIncluded(_, _)
\* the number of function and coroutine definitions anywhere under the
\* statements stmts that the policy of options o includes
CountIncluded(o, stmts) ==
    IF stmts = <<>> THEN 0
    ELSE LET s == Head(stmts)
             here == IF IsDef(s) /\ ShouldInstrument(o, s.name) THEN 1 ELSE 0
             below ==
                CASE s.type \in {"FunctionDef", "AsyncFunctionDef", "ClassDef"} ->
                        CountIncluded(o, s.body)
                  [] s.type = "If" ->
                        CountIncluded(o, s.body) + CountIncluded(o, s.orelse)
                  [] s.type = "Try" ->
                        CountIncluded(o, s.body)
                          + CountIncluded(o, FlattenSeq([i \in DOMAIN s.handlers |->
                                                            s.handlers[i].body]))
                          + CountIncluded(o, s.orelse) + CountIncluded(o, s.finalbody)
                  [] OTHER -> 0
         IN  here + below + CountIncluded(o, Tail(stmts))

\* C7: on a successful instrument_file, functions_wrapped equals the number of
\* definitions in the file that the policy includes, wherever they appear
\* (module level, class methods, definitions nested inside other functions).
C7_WrapCountIsN ==
    \A f \in Files :
        (InstrumentDone(f) /\ last[f].result.success)
            => last[f].result.functions_wrapped =
                  CountIncluded(last[f].o, AstParse(TextOf(last[f].pre)).stmts)

-----------------------------------------------------------------------------
(* Properties of the rewritten functions, checked under SpecWrap. *)

\* the visit has enclosed the body of fn in the protected region: a function at
\* level 2 or higher, a coroutine at level 1 or higher, that the policy includes
Enclosed ==
    /\ phase \in {"wrapped", "ran"}
    /\ ShouldInstrument(wrapped.o, fn.name)
    /\ IF fn.type = "AsyncFunctionDef" THEN wrapped.o.level >= 1
       ELSE wrapped.o.level >= 2

\* the rewritten function reported error e, once, with its own context, and
\* then raised e
ReportsAndRaises(e) ==
    /\ runs.inst.kind = "raise"
    /\ runs.inst.e = e
    /\ HookCalls(runs.inst, "error_function") = <<Event("error_function", TheCtx, 0, e)>>

\* C8 as stated: if the original body raises an error e, whatever its class,
\* error_function is invoked exactly once with the invocation's context and e,
\* and then e propagates to the caller.
C8_EveryErrorReported ==
    (phase = "ran" /\ Enclosed /\ runs.orig.kind = "raise")
        => ReportsAndRaises(runs.orig.e)

\* C8 amended: if the original body raises an error e that is an instance of
\* Exception, error_function is invoked exactly once with the invocation's
\* context and e, and then e propagates to the caller; an exception outside
\* the Exception hierarchy propagates unchanged and is not reported.
C8_ExceptionsReported ==
    (phase = "ran" /\ Enclosed /\ runs.orig.kind = "raise")
        => IF runs.orig.e.cls = "Exception"
           THEN ReportsAndRaises(runs.orig.e)
           ELSE /\ runs.inst.kind = "raise"
                /\ runs.inst.e = runs.orig.e
                /\ HookCalls(runs.inst, "error_function") = <<>>

\* a wrapped function whose body raised an Exception was called, and the error
\* was reported
C8_Witness ==
    /\ phase = "ran"
    /\ Enclosed
    /\ runs.orig.kind = "raise"
    /\ runs.orig.e = ExcObject("Exception", 1)
    /\ Len(HookCalls(runs.inst, "error_function")) = 1

\* C9: for a function wrapped at level 2, an invocation whose original body
\* finishes by `return <expr>` returns the value of <expr>, and end_function is
\* invoked exactly once during the invocation, with the invocation's context.
C9_ReturnReportedOnce ==
    (/\ phase = "ran"
     /\ fn.type = "FunctionDef"
     /\ wrapped.o.level = 2
     /\ ShouldInstrument(wrapped.o, fn.name)
     /\ runs.orig.kind = "return"
     /\ ~runs.orig.bare)
        => /\ runs.inst.kind = "return"
           /\ runs.inst.v = runs.orig.v
           /\ HookCalls(runs.inst, "end_function")
                 = <<Event("end_function", TheCtx, runs.orig.v, NoExc)>>

\* C10: when a function is wrapped at level 2 or higher, the definitions
\* nested in its body are left as they were: their return statements are not
\* rewritten to use the outer invocation's context.
C10_NestedDefsUntouched ==
    (Enclosed /\ fn.type = "FunctionDef")
        => LET try_body == wrapped.node.body[2].body
           IN  \A i \in DOMAIN fn.body :
                   IsDef(fn.body[i]) => try_body[i] = fn.body[i]

-----------------------------------------------------------------------------
(* The policy-level specification SpecPolicy: a definition with any of the  *)
(* names below is visited once by a FunctionWrapper built from any of the   *)
(* configurations below; the decision of _should_instrument and the         *)
(* counter functions_wrapped are recorded in runs.                          *)

PolicyNames == {N_f, N_g, N_init, N_str, N_repr, N_eq}

\* options.functions
PolicyFunctions == {<<>>, <<N_f>>, <<N_init, N_g>>}
\* options.exclude_functions
PolicyExclude == {<<>>, <<N_f>>}
\* TRACING_EXCLUDE_FUNCTIONS: unset, 'g', 'f, g'
PolicyEnvExcluded == {<<>>, <<"g">>, <<"f", ",", " ", "g">>}
\* TRACING_EXCLUDE_FUNCTION_PREFIXES: unset, 'f', ' _,g', 'f,'
PolicyEnvPrefixes == {<<>>, <<"f">>, <<" ", "_", ",", "g">>, <<"f", ",">>}

PolicyOptions ==
    {MkOptions(l, fs_, ex, ee, ep) :
        l \in {0, 2}, fs_ \in PolicyFunctions, ex \in PolicyExclude,
        ee \in PolicyEnvExcluded, ep \in PolicyEnvPrefixes}

InitPolicy ==
    /\ FilesIdle
    /\ MemIdle
    /\ fn \in {FunctionDef(n, NoArgs, <<Pass>>) : n \in PolicyNames}
                \cup {AsyncFunctionDef(n, NoArgs, <<Pass>>) : n \in PolicyNames}
    /\ wrapped = [o |-> DefaultOptions, node |-> Pass]
    /\ runs = [decision |-> FALSE, functions_wrapped |-> 0]
    /\ phase = "init"

\* FunctionWrapper(file_path, o).visit(fn)
Visit(o) ==
    /\ phase = "init"
    /\ wrapped' = [o |-> o, node |-> FunctionWrapperVisit(o, FileA, fn)]
    /\ runs' = [decision |-> ShouldInstrument(o, fn.name),
                functions_wrapped |-> FunctionsWrapped(o, fn)]
    /\ phase' = "visited"
    /\ UNCHANGED fn

NextPolicy == (\E o \in PolicyOptions : Visit(o)) /\ UNCHANGED <<fileVars, memVars>>

SpecPolicy == InitPolicy /\ [][NextPolicy]_vars

\* the reserved special method names
Reserved(n) == n \in {N_init, N_str, N_repr, N_eq}

\* the exclude set of a configuration: the options' list plus the names of the
\* environment's comma-separated list
ExcludeSet(o) ==
    Range(o.exclude_functions)
      \cup (IF o.env_excluded = <<>> THEN {}
            ELSE {Strip(x) : x \in Range(Split(o.env_excluded))})

\* name n starts with a prefix of the environment's prefix list
PrefixListed(o, n) ==
    /\ o.env_prefixes # <<>>
    /\ \E x \in Range(Split(o.env_prefixes)) : StartsWith(n, Strip(x))

\* C11: a name listed in options.functions that also starts with a listed
\* prefix (and that no exclusion rule rejects) is included: the prefix list
\* does not reject a name that options.functions requests.
C11_IncludeOnlyBeforePrefixes ==
    (/\ phase = "visited"
     /\ fn.name \in Range(wrapped.o.functions)
     /\ PrefixListed(wrapped.o, fn.name)
     /\ ~Reserved(fn.name)
     /\ fn.name \notin ExcludeSet(wrapped.o))
        => /\ runs.decision
           /\ runs.functions_wrapped = 1
           /\ wrapped.o.level = 2 => wrapped.node # fn

\* f is requested by options.functions, starts with the listed prefix 'f',
\* and was wrapped
C11_Witness ==
    /\ phase = "visited"
    /\ fn.name = N_f
    /\ fn.name \in Range(wrapped.o.functions)
    /\ PrefixListed(wrapped.o, fn.name)
    /\ runs.decision
    /\ wrapped.node # fn

FiveRules(o, n) ==
    IF Reserved(n) THEN FALSE
    ELSE IF n \in ExcludeSet(o) THEN FALSE
    ELSE IF o.functions # <<>> THEN n \in Range(o.functions)
    ELSE IF PrefixListed(o, n) THEN FALSE
    ELSE TRUE

\* C13: for every name and configuration the policy decision is the result of
\* the five rules evaluated in order: reserved name, exclude set, includeOnly,
\* prefixes, otherwise included.
C13_DecisionIsFiveRules ==
    phase = "visited"
        => /\ runs.decision = FiveRules(wrapped.o, fn.name)
           /\ runs.functions_wrapped = (IF FiveRules(wrapped.o, fn.name) THEN 1 ELSE 0)

\* f is in both the exclude set and options.functions, and was excluded
C13_Witness ==
    /\ phase = "visited"
    /\ fn.name = N_f
    /\ N_f \in ExcludeSet(wrapped.o)
    /\ N_f \in Range(wrapped.o.functions)
    /\ ~runs.decision

-----------------------------------------------------------------------------
(* Properties of uninstrument_file, checked under Spec. *)

\* uninstrument_file(f, restore) has returned, no call on f is in progress, and
\* no open, read or write of the call raised an I/O error
UninstrumentDone(f, restore) ==
    /\ call[f].pc = "idle"
    /\ last[f].op = "uninstrument"
    /\ last[f].restore = restore
    /\ last[f].at \notin {"read", "write"}

\* C14: uninstrument_file(F, restore=True) returns True exactly when a backup
\* exists for F, and then F's content is the backup's content; without a
\* backup it returns False, raises nothing and leaves F as it was.  The backup
\* is left as it was, so that a second restore writes the same content again.
C14_RestoreIffBackup ==
    \A f \in Files :
        UninstrumentDone(f, TRUE)
            => /\ ~last[f].escaped
               /\ last[f].ret = (last[f].pre_bk.kind # "absent")
               /\ last[f].ret => fs[f] = last[f].pre_bk
               /\ ~last[f].ret => fs[f] = last[f].pre
               /\ BackupOf(f) = last[f].pre_bk
               /\ last[f].ret => WriteText(linesep, TextOf(BackupOf(f))) = fs[f]

\* a restore has returned True and changed the file
C14_Witness ==
    \E f \in Files :
        /\ UninstrumentDone(f, TRUE)
        /\ last[f].ret
        /\ fs[f] # last[f].pre
        /\ fs[f] = BackupOf(f)

-----------------------------------------------------------------------------
(* Properties of the wrappings by level, checked under SpecWrap. *)

\* fn is a synchronous function that the policy includes, visited at level 1
MinimalCase ==
    /\ phase \in {"wrapped", "ran"}
    /\ fn.type = "FunctionDef"
    /\ wrapped.o.level = 1
    /\ ShouldInstrument(wrapped.o, fn.name)

\* C15: at level 1 the body of a wrapped synchronous function is
\* [enter(name, file path)] + the original statements + [exit(name)]; every
\* invocation calls enter once, first; it ends as the original ends; and exit
\* is called exactly when the original body runs to its end, so an invocation
\* that leaves by a return or by an error calls enter without exit.
C15_MinimalEnterExit ==
    /\ MinimalCase
          => wrapped.node.body =
                <<Expr(ETracer("enter", <<EStr(fn.name), EPath(FileA)>>))>>
                  \o fn.body
                  \o <<Expr(ETracer("exit", <<EStr(fn.name)>>))>>
    /\ (MinimalCase /\ phase = "ran")
          => /\ runs.inst.kind = runs.orig.kind
             /\ runs.inst.v = runs.orig.v
             /\ runs.inst.e = runs.orig.e
             /\ Len(HookCalls(runs.inst, "enter")) = 1
             /\ runs.inst.env.tr[1].hook = "enter"
             /\ Len(HookCalls(runs.inst, "exit"))
                   = (IF runs.orig.kind = "normal" THEN 1 ELSE 0)
             /\ Len(runs.inst.env.tr)
                   = Len(HookCalls(runs.inst, "enter")) + Len(HookCalls(runs.inst, "exit"))

\* a function wrapped at level 1 was called, its body raised, and enter was
\* called without exit
C15_Witness ==
    /\ MinimalCase
    /\ phase = "ran"
    /\ runs.orig.kind = "raise"
    /\ Len(HookCalls(runs.inst, "enter")) = 1
    /\ Len(HookCalls(runs.inst, "exit")) = 0

\* the level-2 wrapping of definition node of file file_path: __ctx is bound to
\* start_function(name, file, params); then the return-normalized body runs in
\* a protected region that reports to error_function and raises the error again
StandardShape(node, file_path) ==
    [node EXCEPT !.body =
        <<Assign(N_ctx,
                 ETracer("start_function",
                         <<EStr(node.name), EPath(file_path), CreateParamsDict(node.args)>>)),
          Try(TransformReturns(node.body),
              <<ExceptHandler("Exception", N_error,
                              <<Expr(ETracer("error_function",
                                             <<EName(N_ctx), EName(N_error)>>)),
                                Raise(EName(N_error))>>)>>,
              <<>>, <<>>)>>]

\* C16: for a definition the policy includes, the replacement of a coroutine
\* at every level other than 0, and of a synchronous function at every level
\* of 3 or more, is the level-2 wrapping of that definition.
C16_SameAsLevelTwo ==
    (Enclosed /\ (fn.type = "AsyncFunctionDef" \/ wrapped.o.level >= 3))
        => /\ wrapped.node = StandardShape(fn, FileA)
           /\ wrapped.node =
                 FunctionWrapperVisit([wrapped.o EXCEPT !.level = 2], FileA, fn)

\* a coroutine was visited at level 1 and carries the level-2 wrapping
C16_Witness ==
    /\ Enclosed
    /\ fn.type = "AsyncFunctionDef"
    /\ wrapped.o.level = 1
    /\ wrapped.node.body[2].type = "Try"
    /\ wrapped.node # fn

-----------------------------------------------------------------------------
(* Level 0, checked under Spec. *)

\* instrument_file has succeeded on f at level 0
LevelZeroDone(f) ==
    /\ InstrumentDone(f)
    /\ last[f].result.success
    /\ last[f].o.level = 0

\* C17: at level 0 every function and coroutine definition passes through
\* unmodified: the text instrument_file writes is the tracer import followed
\* by the emission of the tree as it was parsed, and no line of it after the
\* import contains a tracer call.
C17_LevelZeroPassthrough ==
    \A f \in Files :
        LevelZeroDone(f)
            => LET code == last[f].result.instrumented_code
                   tree == AstParse(TextOf(last[f].pre)).stmts
               IN  /\ code = ImportStatement \o ToSource(tree)
                   /\ TextOf(fs[f]) = code
                   /\ \A i \in DOMAIN code :
                         i > Len(ImportStatement) => ~LineHasMarker(code[i])

\* a file with a synchronous and an async definition that the policy includes
\* was instrumented at level 0
C17_Witness ==
    \E f \in Files :
        /\ LevelZeroDone(f)
        /\ TextOf(last[f].pre) = Prog2
        /\ last[f].result.functions_wrapped = 2

-----------------------------------------------------------------------------
(* Stripping, checked under Spec. *)

\* the lines of code, in order, that contain neither the marker nor the tracer
\* import text
CleanLines(code) ==
    LET Clean(ln) == ~ContainsTracerText(<<ln>>)
    IN  SelectSeq(code, Clean)

\* C18: uninstrument_file(F, restore=False) on a readable file returns True
\* and rewrites F to exactly the lines of its previous content, in order, that
\* contain neither the marker nor the tracer import text; afterwards F is not
\* detected as instrumented, and a second strip would change nothing.
C18_StripKeepsCleanLines ==
    \A f \in Files :
        (UninstrumentDone(f, FALSE) /\ ReadText(last[f].pre).ok)
            => /\ last[f].ret
               /\ ReadText(fs[f]).ok
               /\ TextOf(fs[f]) = CleanLines(TextOf(last[f].pre))
               /\ ~IsInstrumented(TextOf(fs[f]))
               /\ WriteText(linesep, RemoveInstrumentation(TextOf(fs[f]))) = fs[f]

\* a strip has removed some lines of a file and kept others
C18_Witness ==
    \E f \in Files :
        /\ UninstrumentDone(f, FALSE)
        /\ last[f].ret
        /\ TextOf(fs[f]) # TextOf(last[f].pre)
        /\ TextOf(fs[f]) # <<>>

-----------------------------------------------------------------------------
(* The files an operation writes, checked under Spec. *)

\* this step belongs to an instrument_file call on g that is past its backup,
\* or is a call of uninstrument_file on g
WritesFile(g) ==
    \/ call[g].pc \in {"write", "write_data"}
    \/ /\ call[g].pc = "idle"
       /\ call'[g].pc = "idle"
       /\ last'[g] # last[g]
       /\ last'[g].op = "uninstrument"

\* this step belongs to _create_backup of an instrument_file call on g
WritesBackup(g) == call[g].pc \in {"backup", "backup_write"}

\* C19: instrument_file(F) and uninstrument_file(F) write to no file other
\* than F and F's own backup: a step changes the content of a file only when it
\* is a step of an operation on that file, changes a backup only when it is
\* the backup step of instrument_file on the file the backup belongs to, and
\* no step of uninstrument_file changes the backup tree.
C19_WritesOnlyOwnFiles ==
    [][/\ \A g \in Files : fs'[g] # fs[g] => WritesFile(g)
       /\ \A g \in Files : BackupOf(g)' # BackupOf(g) => WritesBackup(g)
       /\ \A p \in BackupPaths :
             bk'[p] # bk[p]
                => \E g \in Files :
                      WritesBackup(g) /\ GetBackupPath(g).ok /\ GetBackupPath(g).path = p
       /\ (\E g \in Files : last'[g] # last[g] /\ last'[g].op = "uninstrument")
             => bk' = bk]_vars

\* instrument_file has rewritten a.py and written its backup, while the file
\* never operated on and its backup are as they were
C19_Witness ==
    /\ InstrumentDone(FileA)
    /\ last[FileA].result.success
    /\ fs[FileA] # last[FileA].pre
    /\ BackupOf(FileA).kind = "text"
    /\ fs[FileB] = last[FileB].orig
    /\ BackupOf(FileB) = Absent

-----------------------------------------------------------------------------
(* The concurrent specification SpecPar: instrument_file is called once on  *)
(* each of two files by two threads; the steps of the two calls (read,      *)
(* backup open, backup write, transform, file open, file write) interleave  *)
(* in any order.                                                            *)

ParFiles == {FileA, FileB}

\* the options of the calls of SpecPar
ParOptions == {DefaultOptions, MkOptions(0, <<>>, <<>>, <<>>, <<>>)}

ParBytesA ==
    {TextBytes("lf", Prog1), TextBytes("lf", Prog2), TextBytes("lf", Prog3),
     TextBytes("lf", Prog5), TextBytes("crlf", Prog1), Binary}
ParBytesB == {TextBytes("lf", Prog1), TextBytes("lf", Prog2)}

InitPar ==
    /\ linesep \in {"lf", "crlf"}
    /\ fs \in {[f \in Files |-> CASE f = FileA -> a [] f = FileB -> b
                                  [] OTHER -> TextBytes("lf", Prog4)] :
                  a \in ParBytesA, b \in ParBytesB}
    /\ bk = [p \in BackupPaths |-> Absent]
    /\ call = [f \in Files |-> IdleCall]
    /\ last = [f \in Files |-> [NoOp EXCEPT !.orig = fs[f]]]
    /\ faults = 0
    /\ ops = 0
    /\ WrapIdle
    /\ MemIdle

\* a thread calls instrument_file on a file not yet instrumented by a thread
StartPar ==
    \E f \in ParFiles : \E o \in ParOptions :
        last[f].op = "none" /\ InstrumentRead(f, o)

\* a thread takes the next step of its call
StepPar ==
    \E f \in ParFiles :
        \/ InstrumentBackupOpen(f)
        \/ InstrumentBackupWrite(f)
        \/ InstrumentTransform(f)
        \/ InstrumentOpen(f)
        \/ InstrumentWrite(f)

NextPar ==
    \/ StartPar /\ UNCHANGED <<wrapVars, memVars>>
    \/ StepPar /\ UNCHANGED <<wrapVars, memVars>>

SpecPar == InitPar /\ [][NextPar]_vars

\* instrument_file(f, o) run alone, with no I/O error, on a file holding
\* bytes, on a platform whose os.linesep is sep: the file and the backup it
\* leaves and the dict it returns
SequentialOutcome(f, bytes, o, sep) ==
    LET r == ReadText(bytes)
        p == GetBackupPath(f)
        snapshot == WriteText(sep, r.code)
        parsed == AstParse(r.code)
        code == AddTracerImport(ToSource(VisitModule(o, f, parsed.stmts)))
    IN  IF ~r.ok
        THEN [fs |-> bytes, bk |-> Absent,
              result |-> ResultException("cannot read the file")]
        ELSE IF ~p.ok
        THEN [fs |-> bytes, bk |-> Absent,
              result |-> ResultException("path is not in the subpath of the cwd")]
        ELSE IF IsInstrumented(r.code)
        THEN [fs |-> bytes, bk |-> snapshot,
              result |-> ResultAlreadyInstrumented(p.path)]
        ELSE IF ~parsed.ok
        THEN [fs |-> bytes, bk |-> snapshot, result |-> ResultException("invalid syntax")]
        ELSE [fs |-> WriteText(sep, code), bk |-> snapshot,
              result |-> ResultSuccess(r.code, code,
                                       ModuleFunctionsWrapped(o, parsed.stmts), p.path)]

\* C20: instrument_file calls on distinct files, interleaved in any order at
\* the granularity of their steps, end with the file content, the backup and
\* the result that each call gives when it runs alone (no I/O error
\* occurring).
C20_InterleavingIsSequential ==
    \A f \in ParFiles :
        (faults = 0 /\ InstrumentDone(f))
            => LET s == SequentialOutcome(f, last[f].orig, last[f].o, linesep)
               IN  /\ fs[f] = s.fs
                   /\ BackupOf(f) = s.bk
                   /\ last[f].result = s.result

\* the call on a.py has ended with success while the call on pkg/a.py, started
\* meanwhile, is between opening and writing its file
C20_Witness ==
    /\ faults = 0
    /\ InstrumentDone(FileA)
    /\ last[FileA].result.success
    /\ call[FileB].pc = "write_data"
    /\ call[FileB].pre # last[FileA].pre

-----------------------------------------------------------------------------
(* C21: the two shapes of the dict returned by instrument_file.             *)

\* C21: every result instrument_file returns is either a success (success is
\* True, original_code and instrumented_code are present, no error;
\* original_code is the text read from the file and instrumented_code is the
\* text the file now holds) or a failure (success is False, an error message,
\* functions_wrapped = 0, neither code present).
C21_ResultShapes ==
    \A f \in Files :
        InstrumentDone(f) /\ ~last[f].escaped =>
            LET r == last[f].result
            IN  \/ /\ r.success
                   /\ r.has_code
                   /\ r.error = ""
                   /\ r.original_code = TextOf(last[f].pre)
                   /\ fs[f] = WriteText(linesep, r.instrumented_code)
                \/ /\ ~r.success
                   /\ r.error # ""
                   /\ r.functions_wrapped = 0
                   /\ ~r.has_code

\* one call has succeeded and another has failed
C21_Witness ==
    /\ InstrumentDone(FileA) /\ last[FileA].result.success
    /\ last[FileA].result.functions_wrapped > 0
    /\ InstrumentDone(FileX) /\ ~last[FileX].result.success

-----------------------------------------------------------------------------
(* The specification SpecParams: definitions with every shape of parameter  *)
(* list (positional-only, regular, *args, keyword-only, **kwargs) are       *)
(* visited by FunctionWrapper.                                              *)

N_p == <<"p">>
N_k == <<"k">>
N_args == <<"a", "r", "g", "s">>
N_kwargs == <<"k", "w", "a", "r", "g", "s">>

\* def f(p, /, a, b, *args, k, **kwargs) and the lists obtained by leaving
\* parameters out
ArgShapes ==
    {Arguments(p, a, v, k, kw) :
        p \in {<<>>, <<N_p>>},
        a \in {<<>>, <<N_a>>, <<N_a, N_b>>, <<N_b, N_a>>},
        v \in {<<>>, <<N_args>>},
        k \in {<<>>, <<N_k>>},
        kw \in {<<>>, <<N_kwargs>>}}

ParamFnPool ==
    {FunctionDef(N_f, sh, <<Return(EName(N_a))>>) : sh \in ArgShapes}
      \cup {AsyncFunctionDef(N_f, sh, <<Return(EName(N_a))>>) : sh \in ArgShapes}

InitParams ==
    /\ FilesIdle
    /\ MemIdle
    /\ fn \in ParamFnPool
    /\ wrapped = [o |-> DefaultOptions, node |-> Pass]
    /\ runs = [orig |-> NoRun, inst |-> NoRun]
    /\ phase = "init"

NextParams == (\E o \in WrapOptions : Wrap(o)) /\ UNCHANGED <<fileVars, memVars>>

SpecParams == InitParams /\ [][NextParams]_vars

\* the parameters a definition declares, in declaration order, without the
\* variadic *args and the catch-all **kwargs
DeclaredParams(args) == args.posonlyargs \o args.args \o args.kwonlyargs

\* the mapping passed to start_function by the rewritten definition
StartParams(node) == node.body[1].value.args[3]

\* the definition was rewritten at level 2 or higher
WrappedStandard ==
    /\ phase = "wrapped"
    /\ wrapped.o.level >= 2
    /\ wrapped.node # fn

\* C22: for a function wrapped at level 2 or higher, the mapping passed to
\* start_function has one entry for each declared parameter other than *args
\* and **kwargs, keyed by its name, in declaration order, whose value is a
\* reference to that name; and no other entry.
C22_ParamsMapHasEveryParameter ==
    WrappedStandard =>
        LET names == DeclaredParams(fn.args)
            d == StartParams(wrapped.node)
        IN  /\ d.keys = [i \in DOMAIN names |-> EStr(names[i])]
            /\ d.values = [i \in DOMAIN names |-> EName(names[i])]

\* what the code builds: the entries of the regular parameters only
C22_RegularParamsOnly ==
    WrappedStandard =>
        LET names == fn.args.args
            d == StartParams(wrapped.node)
        IN  /\ d.keys = [i \in DOMAIN names |-> EStr(names[i])]
            /\ d.values = [i \in DOMAIN names |-> EName(names[i])]

-----------------------------------------------------------------------------
(* C23: which statements _transform_returns changes.                        *)

RECURSIVE OwnReturnsRewritten(_)
\* statement s with the value-carrying returns of the enclosing function
\* rerouted through end_function: the returns inside conditionals and
\* protected regions, but not those of the functions and classes s defines
OwnReturnsRewritten(s) ==
    LET Each(body) == [i \in DOMAIN body |-> OwnReturnsRewritten(body[i])]
    IN  CASE s.type = "Return" ->
                IF s.value = ENone THEN s
                ELSE Return(ETracer("end_function", <<EName(N_ctx), s.value>>))
          [] s.type = "If" ->
                [s EXCEPT !.body = Each(s.body), !.orelse = Each(s.orelse)]
          [] s.type = "ExceptHandler" -> [s EXCEPT !.body = Each(s.body)]
          [] s.type = "Try" ->
                [s EXCEPT !.body = Each(s.body), !.handlers = Each(s.handlers),
                          !.orelse = Each(s.orelse), !.finalbody = Each(s.finalbody)]
          [] OTHER -> s

\* C23: in a body wrapped at level 2 or higher every value-carrying return of
\* the wrapped function, at any depth of conditionals and protected regions,
\* becomes return end_function(context, <expr>) with <expr> unchanged; bare
\* returns and every other statement of the body are left as they were.
C23_OnlyOwnReturnsRewritten ==
    WrappedStandard =>
        wrapped.node.body[2].body =
            [i \in DOMAIN fn.body |-> OwnReturnsRewritten(fn.body[i])]

\* the same statement for the bodies that define no nested function
C23_HoldsWithoutNestedDefs ==
    WrappedStandard /\ (\A i \in DOMAIN fn.body : ~IsDef(fn.body[i])) =>
        wrapped.node.body[2].body =
            [i \in DOMAIN fn.body |-> OwnReturnsRewritten(fn.body[i])]

-----------------------------------------------------------------------------
(* C24: a successful instrument_file marks the file.                        *)

\* the text begins with the two lines of the import statement
BeginsWithImport(code) ==
    /\ Len(code) >= 2
    /\ code[1] = Line(0, HStmt(ImportFrom(TracerModule, N_tracer)))
    /\ code[2] = Line(0, HBlank)

\* this step completes an instrument_file call on f
CompletesInstrument(f) ==
    /\ call[f].pc # "idle"
    /\ call'[f].pc = "idle"
    /\ last'[f].op = "instrument"

\* C24: when instrument_file succeeds on F the file begins with the tracer
\* import line and contains the tracer text, at every level and also when no
\* function was wrapped; and an instrument_file call on F that follows a
\* successful one with no uninstrument_file in between never succeeds: it
\* fails as already instrumented (or, when taking the snapshot raised an I/O
\* error, with that error).
C24_SuccessMarksTheFile ==
    [][\A f \in Files :
          CompletesInstrument(f) =>
              /\ last'[f].result.success =>
                     /\ BeginsWithImport(TextOf(fs'[f]))
                     /\ ContainsTracerText(TextOf(fs'[f]))
              /\ last[f].op = "instrument" /\ last[f].result.success =>
                     /\ ~last'[f].result.success
                     /\ last'[f].at = "" =>
                            last'[f].result = ResultAlreadyInstrumented(call[f].backup_path)
                     /\ last'[f].at # "" => last'[f].at = "backup"
                     /\ fs'[f] = fs[f]]_vars

\* a call on a.py has failed as already instrumented after a call that
\* succeeded and wrapped nothing
C24_Witness ==
    /\ InstrumentDone(FileA)
    /\ last[FileA].prev_op = "instrument"
    /\ last[FileA].result = ResultAlreadyInstrumented(GetBackupPath(FileA).path)
    /\ BeginsWithImport(TextOf(last[FileA].pre))
    /\ ~ContainsTracerText(Tail(Tail(TextOf(last[FileA].pre))))
    /\ fs[FileA] = last[FileA].pre

-----------------------------------------------------------------------------
(* C25: every invocation that is opened is closed.                          *)

\* the calls of end_function and error_function of outcome r that carry
\* context ctx
ClosingCalls(r, ctx) ==
    SelectSeq(r.env.tr, LAMBDA ev : ev.hook \in {"end_function", "error_function"}
                                       /\ ev.ctx = ctx)

\* C25: for every invocation of a function wrapped at level 2 or higher, the
\* start_function call is followed, before the invocation ends, by exactly one
\* call of end_function or error_function with the invocation's context,
\* whether the body ends by return <expr>, by a bare return, by running off
\* its end or by raising.
C25_OpenedThenClosedOnce ==
    (phase = "ran" /\ Enclosed) =>
        /\ Len(runs.inst.env.tr) >= 1
        /\ runs.inst.env.tr[1].hook = "start_function"
        /\ Len(ClosingCalls(runs.inst, TheCtx)) = 1

\* what the code does when the body, one that defines no nested function, ends
\* by a bare return or by running off its end: no closing call at all
C25_NoCloseWithoutValue ==
    (/\ phase = "ran"
     /\ Enclosed
     /\ \A i \in DOMAIN fn.body : ~IsDef(fn.body[i])
     /\ (runs.orig.kind = "normal" \/ (runs.orig.kind = "return" /\ runs.orig.bare)))
        => ClosingCalls(runs.inst, TheCtx) = <<>>

-----------------------------------------------------------------------------
(* C26: the backup_path of the result.                                      *)

\* C26: whenever instrument_file wrote the snapshot during a call, the result's
\* backup_path is the path of that snapshot, whether the call then succeeded or
\* failed; backup_path is empty only when no snapshot was written in the call.
C26_BackupPathNamesSnapshot ==
    \A f \in Files :
        InstrumentDone(f) /\ ~last[f].escaped =>
            IF last[f].snapshot_written
            THEN last[f].result.backup_path = GetBackupPath(f).path
            ELSE last[f].result.backup_path = <<>>

\* what the code returns: the path of the snapshot when the call succeeded or
\* stopped at the guard, the empty string whenever an exception was caught,
\* snapshot or no snapshot
C26_PathLostOnException ==
    \A f \in Files :
        InstrumentDone(f) /\ ~last[f].escaped =>
            IF last[f].exc = ""
            THEN /\ last[f].snapshot_written
                 /\ last[f].result.backup_path = GetBackupPath(f).path
            ELSE last[f].result.backup_path = <<>>

-----------------------------------------------------------------------------
(* C27: the blank entries of TRACING_EXCLUDE_FUNCTION_PREFIXES.             *)

\* name n starts with a non-empty prefix of the environment's prefix list
NonEmptyPrefixListed(o, n) ==
    \E x \in Range(Split(o.env_prefixes)) : Strip(x) # <<>> /\ StartsWith(n, Strip(x))

\* C27: the prefix rule excludes a name only if it starts with a non-empty
\* listed prefix; empty or blank entries of the list (a trailing comma, a
\* doubled comma, a whitespace-only entry) exclude nothing: with includeOnly
\* empty, a name that is not reserved, not in the exclude set and matches no
\* non-empty prefix is included.
C27_BlankPrefixExcludesNothing ==
    (/\ phase = "visited"
     /\ wrapped.o.functions = <<>>
     /\ ~Reserved(fn.name)
     /\ fn.name \notin ExcludeSet(wrapped.o)
     /\ ~NonEmptyPrefixListed(wrapped.o, fn.name))
        => runs.decision

\* what the code does: a list with a blank entry excludes every name that
\* reaches the prefix rule
C27_BlankPrefixExcludesAll ==
    (/\ phase = "visited"
     /\ wrapped.o.functions = <<>>
     /\ \E x \in Range(Split(wrapped.o.env_prefixes)) : Strip(x) = <<>>
     /\ wrapped.o.env_prefixes # <<>>)
        => ~runs.decision

-----------------------------------------------------------------------------
(* C28: functions_wrapped and the definitions rewritten.                    *)

\* the line is the tracer call that opens a rewritten body: the enter call of
\* level 1 or the start_function assignment of level 2 and higher
OpensRewrittenBody(ln) ==
    /\ ln.h.h = "stmt"
    /\ ln.h.s.type \in {"Expr", "Assign"}
    /\ ln.h.s.value.k = "Tracer"
    /\ ln.h.s.value.attr \in {"enter", "start_function"}

\* the number of definitions of the text whose body was rewritten
RewrittenDefs(code) == Cardinality({i \in DOMAIN code : OpensRewrittenBody(code[i])})

\* C28: in a successful result functions_wrapped is the number of function and
\* coroutine definitions whose body was rewritten with tracer calls in the
\* written file; in particular it is 0 at level 0.
C28_CountIsRewrittenDefs ==
    \A f \in Files :
        (InstrumentDone(f) /\ last[f].result.success) =>
            /\ last[f].result.functions_wrapped = RewrittenDefs(TextOf(fs[f]))
            /\ last[f].o.level = 0 => last[f].result.functions_wrapped = 0

\* the same statement for the levels that rewrite bodies
C28_CountAboveLevelZero ==
    \A f \in Files :
        (InstrumentDone(f) /\ last[f].result.success /\ last[f].o.level >= 1) =>
            last[f].result.functions_wrapped = RewrittenDefs(TextOf(fs[f]))

-----------------------------------------------------------------------------
(* The specification SpecMemory: OpenMemoryClient (openmemory_client.py)    *)
(* and detect_state (detect-state.py) against the OpenMemory server.  The   *)
(* server keeps one state per project; a request either gets its answer     *)
(* ("ok") or fails ("error": a 5xx status, a refused connection, a          *)
(* timeout).  A value is None or a dict; a dict is known by its top-level   *)
(* keys and by the keys of its 'project_metadata' entry.                    *)

NoneValue == [none |-> TRUE, keys |-> {}, metadata |-> {}]
Dict(keys, metadata) == [none |-> FALSE, keys |-> keys, metadata |-> metadata]

\* bool(v): None and the empty dict are false
Truthy(v) == ~v.none /\ v.keys # {}

\* the keys of project_metadata that detect_state prints (lines 68-71)
PrintedMetadata == {"current_phase", "progress_percentage", "last_updated", "active_agent"}

\* the states saved: {}, a state with everything detect_state prints, the state
\* scripts/save_state.py saves (its metadata has neither last_updated nor
\* active_agent), a state without project_metadata
SavedStates ==
    {Dict({}, {}),
     Dict({"project_metadata", "next_recommended_tasks"}, PrintedMetadata),
     Dict({"project_metadata", "technology_stack"}, {"current_phase", "progress_percentage"}),
     Dict({"notes"}, {})}

RequestOutcomes == {"ok", "error"}

\* OpenMemoryClient.health_check: the dict returned has a true 'ok'
HealthCheck(outcome) == outcome = "ok"

\* OpenMemoryClient.load_project_state: the value returned when the request
\* ended with `outcome` and the server holds `held`
LoadProjectState(outcome, held) ==
    IF outcome = "error" THEN NoneValue
    ELSE IF held.none THEN NoneValue
    ELSE held

\* OpenMemoryClient.detect_mode, line 132
ModeOf(state) == IF Truthy(state) THEN "RESUME" ELSE "INITIALIZE"

\* lines 68-71 raise KeyError on this state
PrintRaises(state) ==
    \/ "project_metadata" \notin state.keys
    \/ ~(PrintedMetadata \subseteq state.metadata)

\* the record of a completed call: the operation, the state passed, what it
\* returned, whether it raised, how each request ended ("none": not sent),
\* whether detect_state went to the local file
NoCall ==
    [op |-> "none", state |-> NoneValue, ret |-> "", raised |-> FALSE,
     health |-> "none", load |-> "none", history |-> "none", fallback |-> FALSE]

InitMemory ==
    /\ FilesIdle
    /\ WrapIdle
    /\ store = NoneValue
    /\ local \in [importable : BOOLEAN, state_file : {"absent", "valid", "corrupt"}]
    /\ done = NoCall

\* OpenMemoryClient.save_project_state(state): raise_for_status raises when the
\* request failed; the server stores the state when it answers
SaveProjectState ==
    \E state \in SavedStates, outcome \in RequestOutcomes :
        /\ store' = IF outcome = "ok" THEN state ELSE store
        /\ done' = [NoCall EXCEPT !.op = "save_project_state", !.state = state,
                                  !.raised = (outcome = "error")]
        /\ UNCHANGED local

\* OpenMemoryClient.detect_mode()
DetectMode ==
    \E outcome \in RequestOutcomes :
        /\ done' = [NoCall EXCEPT !.op = "detect_mode", !.load = outcome,
                                  !.ret = ModeOf(LoadProjectState(outcome, store))]
        /\ UNCHANGED <<store, local>>

\* detect_state(), lines 133-224: the local file decides
LocalFallback == IF local.state_file # "absent" THEN "RESUME" ELSE "INITIALIZE"

\* detect_state()
DetectState ==
    \E health, load, history \in RequestOutcomes :
        LET state == LoadProjectState(load, store)
            fell == [NoCall EXCEPT !.op = "detect_state", !.fallback = TRUE,
                                   !.ret = LocalFallback]
        IN  /\ done' =
                 IF ~local.importable THEN fell
                 ELSE IF ~HealthCheck(health) THEN [fell EXCEPT !.health = health]
                 ELSE IF ~Truthy(state)
                 THEN [NoCall EXCEPT !.op = "detect_state", !.health = health,
                                     !.load = load, !.ret = "INITIALIZE"]
                 ELSE IF PrintRaises(state)
                 THEN [fell EXCEPT !.health = health, !.load = load, !.raised = TRUE]
                 ELSE IF history = "error"
                 THEN [fell EXCEPT !.health = health, !.load = load,
                                   !.history = history, !.raised = TRUE]
                 ELSE [NoCall EXCEPT !.op = "detect_state", !.health = health,
                                     !.load = load, !.history = history,
                                     !.ret = "RESUME"]
            /\ UNCHANGED <<store, local>>

NextMemory ==
    \/ SaveProjectState /\ UNCHANGED <<fileVars, wrapVars>>
    \/ DetectMode /\ UNCHANGED <<fileVars, wrapVars>>
    \/ DetectState /\ UNCHANGED <<fileVars, wrapVars>>

SpecMemory == InitMemory /\ [][NextMemory]_vars

\* C29: detect_mode returns 'RESUME' if and only if the server holds a saved
\* state for the project, and 'INITIALIZE' only when no state is found; so
\* after a successful save_project_state(s) it returns 'RESUME', for every
\* state s and whatever the outcome of the load request.
C29_ResumeIffStateSaved ==
    done.op = "detect_mode" =>
        /\ done.ret \in {"RESUME", "INITIALIZE"}
        /\ (done.ret = "RESUME") <=> ~store.none

\* what detect_mode returns: 'RESUME' exactly when the load request was
\* answered with a non-empty state
C29_ResumeIffLoadedNonEmpty ==
    done.op = "detect_mode" =>
        ((done.ret = "RESUME") <=> (done.load = "ok" /\ Truthy(store)))

\* C30: detect_state returns 'RESUME' or 'INITIALIZE'; it falls back to the
\* local state file exactly when OpenMemory is not available (the client
\* cannot be imported, the health check is not ok, or a call of the client
\* raised); when OpenMemory is available the result is 'RESUME' iff a project
\* state is loaded from it, and the local file is not consulted; in the
\* fallback the result is 'RESUME' iff .ai-agents/project-state.json exists,
\* readable or not.
C30_FallbackIffUnavailable ==
    done.op = "detect_state" =>
        LET available ==
                /\ local.importable
                /\ done.health = "ok"
                /\ done.history # "error"
            loaded == done.load = "ok" /\ Truthy(store)
        IN  /\ done.ret \in {"RESUME", "INITIALIZE"}
            /\ done.fallback <=> ~available
            /\ available => ((done.ret = "RESUME") <=> loaded)
            /\ done.fallback => ((done.ret = "RESUME") <=> (local.state_file # "absent"))

\* the parts of C30 the code keeps: the result is one of the two modes, and in
\* the fallback the existence of the local file decides
C30_FallbackDecidedByFile ==
    done.op = "detect_state" =>
        /\ done.ret \in {"RESUME", "INITIALIZE"}
        /\ done.fallback => ((done.ret = "RESUME") <=> (local.state_file # "absent"))
        /\ ~local.importable \/ done.health = "error" => done.fallback

=============================================================================
